---- MODULE Spec2Model ----
(***************************************************************************)
(* Model of the asynchronous text-analysis pipeline of                     *)
(* legal-text-analyzer-api: the in-memory job queue (QueueService), the    *)
(* bounded-concurrency worker (AnalysisWorker), the result cache           *)
(* (CacheService) and the chunked analysis (LegalTextAnalysisService).     *)
(***************************************************************************)
EXTENDS Bags, FiniteSets, Integers, Naturals, Sequences, TLC

(* ------------------------------ bounds --------------------------------- *)
\* number of jobs submitted in one behaviour
MaxJobs == 2
\* the clock (Date.now()) runs from 0 to MaxTime
MaxTime == 3
\* config.cache.ttl, in clock ticks
cacheTtl == 2
\* number of cache reads in one behaviour of the cache specification
MaxGets == 2
\* number of analyzeLegalText calls in one behaviour
MaxCalls == 3
\* number of generateKey calls logged in one behaviour
MaxKeyCalls == 2
\* largest number of chunks of one chunked analysis
MaxChunks == 6
\* largest number of paragraphs of a text handed to createChunks
MaxParagraphs == 3
\* largest number of distinct words of a token stream
MaxWords == 6
\* largest number of occurrences of one word in a token stream
MaxCount == 2

(* ------------------------- program constants --------------------------- *)
\* config.queue.concurrency (default)
concurrency == 2
\* config.queue.maxRetries (default)
maxRetries == 3

JobIds == 1..MaxJobs
NoJob == 0
\* the controller's inline analysis runs under no job id
Inline == NoJob
AnalysisIds == JobIds \cup {Inline}
NoJobAdded == [analysisId |-> NoJob]
NoRequest == [path |-> "none"]
\* text lengths of queued submissions (the controller queues texts of 50000
\* characters or more)
TextLengths == {60000, 150000}

VARIABLES
  memoryQueue,  \* QueueService.memoryQueue: sequence of jobs
  processing,   \* QueueService.processing: claimed job ids
  timers,       \* pending backoff timers set by failJob
  isRunning,    \* AnalysisWorker.isRunning
  listening,    \* the worker's 'job:added' listener is registered
  loop,         \* position of AnalysisWorker.processJobs
  activeJobs,   \* AnalysisWorker.activeJobs
  execs,        \* bag of processNextJob calls in flight
  records,      \* persisted analysis records, by analysis id
  started,      \* history: number of executions started, by job
  succeeded,    \* history: jobs with an execution that wrote 'completed'
  failedEmits,  \* history: number of 'job:failed' emitted by the queue, by job
  cache,        \* CacheService.cache: entry by key
  hits,         \* CacheService.hits
  misses,       \* CacheService.misses
  now,          \* Date.now()
  lastGet,      \* what the most recent CacheService.get returned
  lastSet,      \* history: the entry most recently stored, by key
  calls,        \* analyzeLegalText calls, by caller
  callsMade,    \* history: number of analyzeLegalText calls made
  stored,       \* history: result of the last analysis that ran, by text
  apc,          \* position of analyzeWithChunking: idle, await, done
  chunks,       \* the chunks createChunks returned
  batchStart,   \* the loop variable i of analyzeWithChunking (0-based)
  chunkState,   \* by chunk: pending, inflight, ok, failed
  outcome,      \* by chunk: what its batch promise resolved to
  answer,       \* history: the sentiment provider's answer, by chunk
  chunkResults, \* the chunkResults array
  processedChunks,
  progressEvents, \* history: the 'progress' events emitted, in order
  aresult,      \* what analyzeWithChunking returned
  providerCalls,  \* history: chunk indices the sentiment provider was called for
  chunksDone,   \* processedChunks of the analysis running for each analysis id
  progressWrites, \* store writes issued by updateJobProgress, not yet landed
  inlinePc,     \* the controller's inline analysis: idle, running, done
  lastAdded,    \* history: the job as the caller handed it to addJob
  lastRequest,  \* history: the most recent submission and its response
  ptext,        \* the text handed to createChunks: its paragraphs
  ppc,          \* createChunks: input, done
  planned,      \* the chunks createChunks returned
  wtokens,      \* the words handed to calculateWordFrequency
  wpc,          \* getTopWords: idle, input, done
  wtop,         \* what getTopWords returned, and the limit it was given
  keyLog,       \* history: the generateKey calls: text, key, reads made before
  bull          \* the broker's jobs: position of processBullJob, progress

queueVars == <<memoryQueue, processing, timers>>
workerVars == <<isRunning, listening, loop, activeJobs, execs>>
historyVars == <<started, succeeded, failedEmits>>
progressVars == <<chunksDone, progressWrites, inlinePc>>
submitVars == <<lastAdded, lastRequest>>
planVars == <<ptext, ppc, planned>>
jobVars == <<memoryQueue, processing, timers, isRunning, listening, loop,
             activeJobs, execs, records, started, succeeded, failedEmits,
             chunksDone, progressWrites, inlinePc, lastAdded, lastRequest>>
cacheVars == <<cache, hits, misses, now, lastGet, lastSet>>
callVars == <<calls, callsMade, stored>>
chunkVars == <<apc, chunks, batchStart, chunkState, outcome, answer,
               chunkResults, processedChunks, progressEvents, aresult,
               providerCalls>>
wordVars == <<wtokens, wpc, wtop>>
sideVars == <<wordVars, keyLog, bull>>
notJobVars == <<cacheVars, callVars, chunkVars, planVars, sideVars>>
vars == <<memoryQueue, processing, timers, isRunning, listening, loop,
          activeJobs, execs, records, started, succeeded, failedEmits,
          cache, hits, misses, now, lastGet, lastSet, calls, callsMade,
          stored, apc, chunks, batchStart, chunkState, outcome, answer,
          chunkResults, processedChunks, progressEvents, aresult,
          providerCalls, chunksDone, progressWrites, inlinePc, lastAdded,
          lastRequest, ptext, ppc, planned, wtokens, wpc, wtop, keyLog, bull>>

(* --------------------------- QueueService ------------------------------ *)
\* the tiers with a length on a threshold counted in the upper tier
calculatePriority_AtThreshold(textLength) ==
  IF textLength >= 100000 THEN 3
  ELSE IF textLength >= 50000 THEN 2
  ELSE IF textLength >= 10000 THEN 1
  ELSE 0

calculatePriority(textLength) ==
  IF textLength > 100000 THEN 3
  ELSE IF textLength > 50000 THEN 2
  ELSE IF textLength > 10000 THEN 1
  ELSE 0

\* insert job x into the already sorted sequence s, after every element that
\* does not compare greater (stable)
RECURSIVE InsertDesc(_, _)
InsertDesc(s, x) ==
  IF s = <<>> THEN <<x>>
  ELSE IF x.priority > Head(s).priority THEN <<x>> \o s
  ELSE <<Head(s)>> \o InsertDesc(Tail(s), x)

\* Array.prototype.sort((a, b) => b.priority - a.priority): stable, descending
RECURSIVE SortDesc(_)
SortDesc(s) ==
  IF s = <<>> THEN <<>>
  ELSE LET rest == SortDesc(SubSeq(s, 1, Len(s) - 1))
       IN InsertDesc(rest, s[Len(s)])

QueueIds(q) == {q[i].analysisId : i \in 1..Len(q)}

RemoveJob(q, id) == SelectSeq(q, LAMBDA j : j.analysisId # id)

\* the search taken from the end of the list (findLast)
FirstUnclaimed_Last(q, p) ==
  LET idx == {i \in 1..Len(q) : q[i].analysisId \notin p}
  IN IF idx = {} THEN NoJob
     ELSE q[CHOOSE i \in idx : \A k \in idx : i >= k].analysisId

\* memoryQueue.find((j) => !processing.has(j.analysisId))
FirstUnclaimed(q, p) ==
  LET idx == {i \in 1..Len(q) : q[i].analysisId \notin p}
  IN IF idx = {} THEN NoJob
     ELSE q[CHOOSE i \in idx : \A k \in idx : i <= k].analysisId

getNextJob(q, p) ==
  LET job == FirstUnclaimed(q, p)
  IN [job |-> job,
      processing |-> IF job = NoJob THEN p ELSE p \cup {job}]

\* completeJob without processing.delete
completeJob_KeepsClaim(q, p, id) ==
  [memoryQueue |-> RemoveJob(q, id), processing |-> p]

completeJob(q, p, id) ==
  [memoryQueue |-> RemoveJob(q, id), processing |-> p \ {id}]

\* QueueService.getStats on the in-memory backend
getStats(q, p) ==
  [pendingJobs |-> Len(q) - Cardinality(p), activeJobs |-> Cardinality(p),
   completedJobs |-> 0, failedJobs |-> 0]

\* the job's attempts counter after failJob's increment (0 when not queued)
AttemptsAfterFail(q, id) ==
  LET idx == {i \in 1..Len(q) : q[i].analysisId = id}
  IN IF idx = {} THEN 0 ELSE q[CHOOSE i \in idx : TRUE].attempts + 1

failJob(q, p, t, id) ==
  LET found == id \in QueueIds(q)
      att == AttemptsAfterFail(q, id)
      bumped == [i \in 1..Len(q) |->
                   IF q[i].analysisId = id
                     THEN [q[i] EXCEPT !.attempts = att] ELSE q[i]]
  IN IF ~found
       THEN [memoryQueue |-> q, processing |-> p \ {id}, timers |-> t,
             emitFailed |-> FALSE]
     ELSE IF att >= maxRetries
       THEN [memoryQueue |-> RemoveJob(q, id), processing |-> p \ {id},
             timers |-> t, emitFailed |-> TRUE]
     ELSE [memoryQueue |-> bumped, processing |-> p \ {id},
           timers |-> t \cup {[id |-> id, attempts |-> att]},
           emitFailed |-> FALSE]

\* addJob without the sort
addJob_Unsorted(q, job) ==
  Append(q, [job EXCEPT !.priority = calculatePriority(job.text.len)])

\* QueueService.addJob on the in-memory backend, up to the 'job:added' event:
\* the priority is computed from the text length, the list is re-sorted
addJob(q, job) ==
  SortDesc(Append(q, [job EXCEPT !.priority = calculatePriority(job.text.len)]))

(* --------------------------- AnalysisWorker ---------------------------- *)
NewExec(id, poll) == [id |-> id, pc |-> "start", poll |-> poll]

\* processNextJob up to its first await: claim the next job, add it to
\* activeJobs and issue the first store write of processJob
processNextJob(q, p, a, x, poll) ==
  LET r == getNextJob(q, p)
  IN IF r.job = NoJob
       THEN [processing |-> p, activeJobs |-> a, execs |-> x, job |-> NoJob]
       ELSE [processing |-> r.processing,
             activeJobs |-> a \cup {r.job},
             execs |-> x (+) SetToBag({NewExec(r.job, poll)}),
             job |-> r.job]

\* the 'job:added' listener registered by setupQueueListeners
onJobAdded(on, q, p, a, x) ==
  IF on /\ Cardinality(a) < concurrency
    THEN processNextJob(q, p, a, x, FALSE)
    ELSE [processing |-> p, activeJobs |-> a, execs |-> x, job |-> NoJob]

\* one iteration of the while loop of processJobs, up to its await
pollIteration(q, p, a, x) ==
  IF Cardinality(a) < concurrency
    THEN processNextJob(q, p, a, x, TRUE)
    ELSE [processing |-> p, activeJobs |-> a, execs |-> x, job |-> NoJob]

Bump(f, id) == IF id = NoJob THEN f ELSE [f EXCEPT ![id] = @ + 1]

InFlight(id) == BagCardinality([e \in {d \in BagToSet(execs) : d.id = id}
                                  |-> execs[e]])

TypeOK ==
  /\ processing \subseteq JobIds
  /\ activeJobs \subseteq JobIds
  /\ isRunning \in BOOLEAN
  /\ listening \in BOOLEAN
  /\ loop \in {"off", "await", "sleep"}

InitJobs ==
  /\ memoryQueue = <<>>
  /\ processing = {}
  /\ timers = {}
  /\ isRunning = FALSE
  /\ listening = FALSE
  /\ loop = "off"
  /\ activeJobs = {}
  /\ execs = EmptyBag
  /\ records = [j \in JobIds |-> [status |-> "none", progress |-> 0]]
  /\ started = [j \in JobIds |-> 0]
  /\ succeeded = {}
  /\ failedEmits = [j \in JobIds |-> 0]
  /\ chunksDone = [a \in AnalysisIds |-> 0]
  /\ progressWrites = {}
  /\ inlinePc = "idle"
  /\ lastAdded = NoJobAdded
  /\ lastRequest = NoRequest

\* AnalysisWorker.start: set isRunning, run the loop's first iteration,
\* register the queue listener
Start ==
  /\ ~isRunning
  /\ loop = "off"
  /\ LET r == pollIteration(memoryQueue, processing, activeJobs, execs)
     IN /\ isRunning' = TRUE
        /\ listening' = TRUE
        /\ processing' = r.processing
        /\ activeJobs' = r.activeJobs
        /\ execs' = r.execs
        /\ started' = Bump(started, r.job)
        /\ loop' = IF r.job = NoJob THEN "sleep" ELSE "await"
  /\ UNCHANGED <<memoryQueue, timers, records, succeeded, failedEmits>>
  /\ UNCHANGED notJobVars
  /\ UNCHANGED <<progressVars, submitVars>>

\* AnalysisWorker.stop: only the flag is cleared; the 'job:added' listener
\* stays registered
Stop ==
  /\ isRunning
  /\ isRunning' = FALSE
  /\ UNCHANGED <<queueVars, listening, loop, activeJobs, execs, records,
                 historyVars>>
  /\ UNCHANGED notJobVars
  /\ UNCHANGED <<progressVars, submitVars>>

\* the loop's timeout resolves: next iteration of while (this.isRunning)
PollWake ==
  /\ loop = "sleep"
  /\ IF isRunning
       THEN LET r == pollIteration(memoryQueue, processing, activeJobs, execs)
            IN /\ processing' = r.processing
               /\ activeJobs' = r.activeJobs
               /\ execs' = r.execs
               /\ started' = Bump(started, r.job)
               /\ loop' = IF r.job = NoJob THEN "sleep" ELSE "await"
       ELSE /\ loop' = "off"
            /\ UNCHANGED <<processing, activeJobs, execs, started>>
  /\ UNCHANGED <<memoryQueue, timers, isRunning, listening, records,
                 succeeded, failedEmits>>
  /\ UNCHANGED notJobVars
  /\ UNCHANGED <<progressVars, submitVars>>

\* the controller's queued path: create the record with status 'processing',
\* then QueueService.addJob (in-memory backend), which notifies the worker
QueuedPath(text, priority) ==
  \E j \in JobIds :
    /\ records[j].status = "none"
    /\ \A k \in JobIds : k < j => records[k].status # "none"
    /\ LET job == [analysisId |-> j, text |-> text, priority |-> priority,
                   attempts |-> 0]
           q == addJob(memoryQueue, job)
           r == onJobAdded(listening, q, processing, activeJobs, execs)
       IN /\ memoryQueue' = q
          /\ lastAdded' = job
          /\ processing' = r.processing
          /\ activeJobs' = r.activeJobs
          /\ execs' = r.execs
          /\ started' = Bump(started, r.job)
    /\ records' = [records EXCEPT ![j] = [status |-> "processing",
                                          progress |-> 0]]
    /\ UNCHANGED <<timers, isRunning, listening, loop, succeeded,
                   failedEmits>>
    /\ UNCHANGED notJobVars
    /\ UNCHANGED progressVars

\* analyzeText with a text of 50000 characters or more that passed validation
AddJob(len) ==
  /\ QueuedPath([len |-> len, blank |-> FALSE], 1)
  /\ UNCHANGED lastRequest

\* the backoff timer set by failJob fires: release the claim, notify the worker
TimerFire(t) ==
  /\ t \in timers
  /\ LET p == processing \ {t.id}
         r == onJobAdded(listening, memoryQueue, p, activeJobs, execs)
     IN /\ processing' = r.processing
        /\ activeJobs' = r.activeJobs
        /\ execs' = r.execs
        /\ started' = Bump(started, r.job)
  /\ timers' = timers \ {t}
  /\ UNCHANGED <<memoryQueue, isRunning, listening, loop, records, succeeded,
                 failedEmits>>
  /\ UNCHANGED notJobVars
  /\ UNCHANGED <<progressVars, submitVars>>

Advance(e, pc) == (execs (-) SetToBag({e})) (+) SetToBag({[e EXCEPT !.pc = pc]})
Ended(e) == execs (-) SetToBag({e})
\* processJobs resumes (and starts its delay) when the call it awaits ends
LoopAfter(e) == IF e.poll THEN "sleep" ELSE loop

\* processJob: the store write of status 'processing', progress 0
WriteProcessing(e, ok) ==
  /\ e \in BagToSet(execs)
  /\ e.pc = "start"
  /\ IF ok
       THEN /\ records' = [records EXCEPT ![e.id] =
                             [status |-> "processing", progress |-> 0]]
            /\ execs' = Advance(e, "analyze")
       ELSE /\ execs' = Advance(e, "catch")
            /\ UNCHANGED records
  /\ chunksDone' = IF ok THEN [chunksDone EXCEPT ![e.id] = 0] ELSE chunksDone
  /\ UNCHANGED <<queueVars, isRunning, listening, loop, activeJobs,
                 historyVars>>
  /\ UNCHANGED notJobVars
  /\ UNCHANGED <<progressWrites, inlinePc, submitVars>>

\* processJob: legalTextAnalysisService.analyzeLegalText returns or throws
Analyze(e, ok) ==
  /\ e \in BagToSet(execs)
  /\ e.pc = "analyze"
  /\ execs' = Advance(e, IF ok THEN "complete" ELSE "catch")
  /\ UNCHANGED <<queueVars, isRunning, listening, loop, activeJobs, records,
                 historyVars>>
  /\ UNCHANGED notJobVars
  /\ UNCHANGED <<progressVars, submitVars>>

\* processJob: the store write of status 'completed'; when it lands,
\* processNextJob removes the id from activeJobs and calls completeJob
WriteCompleted(e, ok) ==
  /\ e \in BagToSet(execs)
  /\ e.pc = "complete"
  /\ IF ok
       THEN LET c == completeJob(memoryQueue, processing, e.id)
            IN /\ records' = [records EXCEPT ![e.id] =
                                [status |-> "completed", progress |-> 100]]
               /\ succeeded' = succeeded \cup {e.id}
               /\ activeJobs' = activeJobs \ {e.id}
               /\ memoryQueue' = c.memoryQueue
               /\ processing' = c.processing
               /\ execs' = Ended(e)
               /\ loop' = LoopAfter(e)
       ELSE /\ execs' = Advance(e, "catch")
            /\ UNCHANGED <<records, succeeded, activeJobs, memoryQueue,
                           processing, loop>>
  /\ UNCHANGED <<timers, isRunning, listening, started, failedEmits>>
  /\ UNCHANGED notJobVars
  /\ UNCHANGED <<progressVars, submitVars>>

\* processJob's catch: the store write of status 'failed', then failJob and
\* the rethrow that processNextJob's catch logs; when the write itself
\* throws, failJob is not reached
WriteFailed(e, ok) ==
  /\ e \in BagToSet(execs)
  /\ e.pc = "catch"
  /\ IF ok
       THEN LET f == failJob(memoryQueue, processing, timers, e.id)
            IN /\ records' = [records EXCEPT ![e.id].status = "failed"]
               /\ memoryQueue' = f.memoryQueue
               /\ processing' = f.processing
               /\ timers' = f.timers
               /\ failedEmits' = IF f.emitFailed
                                   THEN Bump(failedEmits, e.id)
                                   ELSE failedEmits
       ELSE UNCHANGED <<records, memoryQueue, processing, timers,
                        failedEmits>>
  /\ execs' = Ended(e)
  /\ loop' = LoopAfter(e)
  /\ UNCHANGED <<isRunning, listening, activeJobs, started, succeeded>>
  /\ UNCHANGED notJobVars
  /\ UNCHANGED <<progressVars, submitVars>>

(* ---------------------------- CacheService ----------------------------- *)
\* config.textProcessing.maxTextSize
maxTextSize == 2000000
\* config.textProcessing.chunkSize
chunkSize == 3000

\* the value get returns for a miss (null)
Null == 0
\* set called without its ttl argument
Omitted == -1
\* the values a stored result can take
Results == {1, 2}
\* the ttl arguments passed to set
TtlArgs == {Omitted, 0, 1}
Callers == 1..2

\* input texts: a short one, one long enough for chunking and for the queued
\* path of the controller, an oversized one
Texts == {[id |-> 1, len |-> 100, blank |-> FALSE],
          [id |-> 2, len |-> 60000, blank |-> FALSE],
          [id |-> 3, len |-> 2000001, blank |-> FALSE]}
TextOf(i) == CHOOSE t \in Texts : t.id = i

\* the digest encoded in base64
generateKey_Base64(text) == <<"sha256", "base64", text.id>>
\* createHash('sha256').update(text).digest('hex'): the digest is kept
\* abstract, one key per text content
generateKey(text) == <<"sha256", "hex", text.id>>
Keys == {generateKey(t) : t \in Texts}

NoEntry == [present |-> FALSE, data |-> Null, expiresAt |-> 0]

\* mutant of cacheGet: an entry counts as expired already at its expiresAt
cacheGet_ExpiredAtDeadline(c, key, t) ==
  IF ~c[key].present
    THEN [value |-> Null, cache |-> c, hit |-> FALSE]
  ELSE IF t >= c[key].expiresAt
    THEN [value |-> Null, cache |-> [c EXCEPT ![key] = NoEntry],
          hit |-> FALSE]
  ELSE [value |-> c[key].data, cache |-> c, hit |-> TRUE]

\* CacheService.get: value returned, cache afterwards, hit or miss
cacheGet(c, key, t) ==
  IF ~c[key].present
    THEN [value |-> Null, cache |-> c, hit |-> FALSE]
  ELSE IF t > c[key].expiresAt
    THEN [value |-> Null, cache |-> [c EXCEPT ![key] = NoEntry],
          hit |-> FALSE]
  ELSE [value |-> c[key].data, cache |-> c, hit |-> TRUE]

\* CacheService.set: expiresAt = Date.now() + (ttl || config.cache.ttl)
cacheSet(c, key, value, ttl, t) ==
  [c EXCEPT ![key] =
     [present |-> TRUE, data |-> value,
      expiresAt |-> t + (IF ttl = Omitted \/ ttl = 0 THEN cacheTtl ELSE ttl)]]

\* mutant of cleanup: the comparison is inverted, live entries are swept
cleanup_SweepsLive(c, t) ==
  [k \in DOMAIN c |-> IF c[k].present /\ t < c[k].expiresAt
                        THEN NoEntry ELSE c[k]]

\* CacheService.cleanup: the periodic sweep
cleanup(c, t) ==
  [k \in DOMAIN c |-> IF c[k].present /\ t > c[k].expiresAt
                        THEN NoEntry ELSE c[k]]

\* LegalTextAnalysisService.validateInput: TRUE when it does not throw
validateInput(text) ==
  /\ text.len > 0
  /\ ~text.blank
  /\ text.len <= maxTextSize

IdleCall == [pc |-> "idle", text |-> 0, result |-> Null, hit |-> FALSE,
             error |-> FALSE]

InitCache ==
  /\ cache = [k \in Keys |-> NoEntry]
  /\ hits = 0
  /\ misses = 0
  /\ now = 0
  /\ lastGet = [key |-> <<>>, value |-> Null]
  /\ lastSet = [k \in Keys |-> NoEntry]

InitCalls ==
  /\ calls = [c \in Callers |-> IdleCall]
  /\ callsMade = 0
  /\ stored = [t \in Texts |-> Null]

\* Date.now() advances
Tick ==
  /\ now < MaxTime
  /\ now' = now + 1
  /\ UNCHANGED <<cache, hits, misses, lastGet, lastSet, callVars, chunkVars, jobVars, planVars, sideVars>>

\* the setInterval callback of the constructor
Cleanup ==
  /\ cache' = cleanup(cache, now)
  /\ UNCHANGED <<hits, misses, now, lastGet, lastSet, callVars, chunkVars, jobVars, planVars, sideVars>>

CacheSet(key, value, ttl) ==
  /\ cache' = cacheSet(cache, key, value, ttl, now)
  /\ lastSet' = [lastSet EXCEPT ![key] = cache'[key]]
  /\ UNCHANGED <<hits, misses, now, lastGet, callVars, chunkVars, jobVars, planVars, sideVars>>

CacheGet(key) ==
  /\ hits + misses < MaxGets
  /\ LET r == cacheGet(cache, key, now)
     IN /\ cache' = r.cache
        /\ hits' = IF r.hit THEN hits + 1 ELSE hits
        /\ misses' = IF r.hit THEN misses ELSE misses + 1
        /\ lastGet' = [key |-> key, value |-> r.value]
  /\ UNCHANGED <<now, lastSet, callVars, chunkVars, jobVars, planVars, sideVars>>

\* CacheService.delete
CacheDelete(key) ==
  /\ cache' = [cache EXCEPT ![key] = NoEntry]
  /\ lastSet' = [lastSet EXCEPT ![key] = NoEntry]
  /\ UNCHANGED <<hits, misses, now, lastGet, callVars, chunkVars, jobVars, planVars, sideVars>>

\* CacheService.clear
CacheClear ==
  /\ cache' = [k \in Keys |-> NoEntry]
  /\ lastSet' = [k \in Keys |-> NoEntry]
  /\ UNCHANGED <<hits, misses, now, lastGet, callVars, chunkVars, jobVars, planVars, sideVars>>

\* CacheService.generateKey called on its own
GenerateKey(text) ==
  /\ Len(keyLog) < MaxKeyCalls
  /\ keyLog' = Append(keyLog, [text |-> text.id, key |-> generateKey(text),
                               reads |-> hits + misses])
  /\ UNCHANGED <<wordVars, bull, jobVars, cacheVars, callVars, chunkVars,
                 planVars>>

\* the length of a key: a SHA-256 digest is 32 bytes, two characters each
\* in hexadecimal, four characters for three bytes (padded) in base64
keyLength(key) == IF key[2] = "hex" THEN 2 * 32 ELSE 4 * ((32 + 2) \div 3)

(* ------------------ LegalTextAnalysisService.analyzeLegalText ---------- *)
\* the call up to its first await: cache lookup, then validateInput; on a
\* miss of a valid text the analysis starts
Call(c, text) ==
  /\ calls[c].pc = "idle"
  /\ callsMade < MaxCalls
  /\ callsMade' = callsMade + 1
  /\ LET r == cacheGet(cache, generateKey(text), now)
     IN /\ cache' = r.cache
        /\ hits' = IF r.hit THEN hits + 1 ELSE hits
        /\ misses' = IF r.hit THEN misses ELSE misses + 1
        /\ lastGet' = [key |-> generateKey(text), value |-> r.value]
        /\ calls' = [calls EXCEPT ![c] =
             IF r.value # Null
               THEN [pc |-> "done", text |-> text.id, result |-> r.value,
                     hit |-> TRUE, error |-> FALSE]
             ELSE IF ~validateInput(text)
               THEN [pc |-> "done", text |-> text.id, result |-> Null,
                     hit |-> FALSE, error |-> TRUE]
             ELSE [pc |-> "running", text |-> text.id, result |-> Null,
                   hit |-> FALSE, error |-> FALSE]]
  /\ UNCHANGED <<now, lastSet, stored, chunkVars, jobVars, planVars, sideVars>>

\* the analysis ends with result r, which is cached and returned
Finish(c, r) ==
  /\ calls[c].pc = "running"
  /\ LET text == TextOf(calls[c].text)
     IN /\ cache' = cacheSet(cache, generateKey(text), r, Omitted, now)
        /\ lastSet' = [lastSet EXCEPT ![generateKey(text)] =
                         cache'[generateKey(text)]]
        /\ stored' = [stored EXCEPT ![text] = r]
  /\ calls' = [calls EXCEPT ![c].pc = "done", ![c].result = r]
  /\ UNCHANGED <<hits, misses, now, lastGet, callsMade, chunkVars, jobVars, planVars, sideVars>>

\* the caller takes the result (or the error)
Return(c) ==
  /\ calls[c].pc = "done"
  /\ calls' = [calls EXCEPT ![c] = IdleCall]
  /\ UNCHANGED <<cacheVars, callsMade, stored, chunkVars, jobVars, planVars, sideVars>>

(* -------------- LegalTextAnalysisService: chunked analysis ------------- *)
BATCH_SIZE == 5

\* tokens of the model's texts, already lowercased and split on whitespace
ShortTokens == {"ab", "de"}          \* tokens of length <= 2
stopwords == {"de", "lei"}           \* from the constructor's stopword set
legalTerms == {"contrato", "multa"}  \* from config.textProcessing.legalTerms
NoSentiment == "undefined"
\* what the sentiment provider may answer as 'overall'
ProviderAnswers == {"positivo", "negativo", "neutro", "misto"}

ChunkPool == << <<"contrato", "de", "multa", "contrato", "texto", "prazo",
                  "juiz">>,
                <<"texto", "lei", "multa", "ab", "autor", "parte">>,
                <<"de", "ab">> >>

\* chunks of a text with many different words: the first has ten words
\* twice and an eleventh once
WidePool == << <<"contrato", "multa", "prazo", "juiz", "autor", "parte",
                 "texto", "foro", "dano", "culpa",
                 "contrato", "multa", "prazo", "juiz", "autor", "parte",
                 "texto", "foro", "dano", "culpa", "posse">>,
               <<"posse", "de", "posse", "posse">>,
               <<"contrato", "posse", "lei">> >>

Min(a, b) == IF a < b THEN a ELSE b

\* the filter of extractWords: word.length > 2 && !stopwords.has(word)
extractWords(tokens) ==
  SelectSeq(tokens, LAMBDA w : w \notin ShortTokens /\ w \notin stopwords)

RECURSIVE FirstSeenUpTo(_, _)
FirstSeenUpTo(ws, i) ==
  IF i = 0 THEN <<>>
  ELSE LET prev == FirstSeenUpTo(ws, i - 1)
       IN IF \E k \in 1..Len(prev) : prev[k] = ws[i]
            THEN prev
            ELSE Append(prev, ws[i])

\* the keys of a Map filled in this order: first occurrence of each key
FirstSeen(ws) == FirstSeenUpTo(ws, Len(ws))

RECURSIVE SumCounts(_, _)
\* sum of the counts of the entries <<key, count>> of seq that have key w
SumCounts(seq, w) ==
  IF seq = <<>> THEN 0
  ELSE (IF Head(seq)[1] = w THEN Head(seq)[2] ELSE 0) + SumCounts(Tail(seq), w)

\* Map entries after map.set(key, (map.get(key) || 0) + count) for each entry
MergeEntries(seq) ==
  LET keys == FirstSeen([k \in 1..Len(seq) |-> seq[k][1]])
  IN [k \in 1..Len(keys) |-> <<keys[k], SumCounts(seq, keys[k])>>]

\* calculateWordFrequency: the Map's entries, in insertion order
calculateWordFrequency(words) ==
  MergeEntries([k \in 1..Len(words) |-> <<words[k], 1>>])

RECURSIVE InsertEntry(_, _)
InsertEntry(s, x) ==
  IF s = <<>> THEN <<x>>
  ELSE IF x[2] > Head(s)[2] THEN <<x>> \o s
  ELSE <<Head(s)>> \o InsertEntry(Tail(s), x)

RECURSIVE SortEntries(_)
\* entries.sort((a, b) => b[1] - a[1]): stable, descending by count
SortEntries(s) ==
  IF s = <<>> THEN <<>>
  ELSE LET rest == SortEntries(SubSeq(s, 1, Len(s) - 1))
       IN InsertEntry(rest, s[Len(s)])

\* the selection with the entries taken in reverse insertion order
getTopWords_ReversedTies(frequency, limit) ==
  LET n == Len(frequency)
      sorted == SortEntries([k \in 1..n |-> frequency[n + 1 - k]])
  IN [k \in 1..Min(limit, Len(sorted)) |->
        [word |-> sorted[k][1], count |-> sorted[k][2]]]

getTopWords(frequency, limit) ==
  LET sorted == SortEntries(frequency)
  IN [k \in 1..Min(limit, Len(sorted)) |->
        [word |-> sorted[k][1], count |-> sorted[k][2]]]

extractLegalTerms(words) ==
  LET sorted == SortEntries(calculateWordFrequency(
                  SelectSeq(words, LAMBDA w : w \in legalTerms)))
  IN [k \in 1..Len(sorted) |-> [term |-> sorted[k][1], count |-> sorted[k][2]]]

\* the condition that is true exactly for the chunks 0 to 3
needsSentiment_FirstFour(index) == index < 4
\* analyzeChunk: the chunks whose sentiment is asked of the provider
needsSentiment(index) == index < 3

\* analyzeChunk, given the provider's answer s for the chunk
analyzeChunk(chunk, index, s) ==
  LET words == extractWords(chunk)
  IN [chunkIndex |-> index,
      sentiment |-> IF needsSentiment(index) THEN s ELSE NoSentiment,
      topWords |-> getTopWords(calculateWordFrequency(words), 10),
      legalTerms |-> extractLegalTerms(words),
      wordCount |-> Len(words),
      error |-> ""]

\* a degraded result that counts one word
Degraded_CountsOne(index) ==
  [chunkIndex |-> index, sentiment |-> NoSentiment, topWords |-> <<>>,
   legalTerms |-> <<>>, wordCount |-> 1, error |-> "Falha ao analisar chunk"]

\* the ChunkResult built in the catch of analyzeWithChunking
Degraded(index) ==
  [chunkIndex |-> index, sentiment |-> NoSentiment, topWords |-> <<>>,
   legalTerms |-> <<>>, wordCount |-> 0, error |-> "Falha ao analisar chunk"]

RECURSIVE SumWordCount(_)
SumWordCount(rs) ==
  IF rs = <<>> THEN 0 ELSE Head(rs).wordCount + SumWordCount(Tail(rs))

RECURSIVE AllTopWords(_)
AllTopWords(rs) ==
  IF rs = <<>> THEN <<>>
  ELSE [k \in 1..Len(Head(rs).topWords) |->
          <<Head(rs).topWords[k].word, Head(rs).topWords[k].count>>]
       \o AllTopWords(Tail(rs))

RECURSIVE AllLegalTerms(_)
AllLegalTerms(rs) ==
  IF rs = <<>> THEN <<>>
  ELSE [k \in 1..Len(Head(rs).legalTerms) |->
          <<Head(rs).legalTerms[k].term, Head(rs).legalTerms[k].count>>]
       \o AllLegalTerms(Tail(rs))

NoOverall == [overall |-> NoSentiment, score |-> "none"]

\* the consolidation with the tally enumerated from neutro to positivo
consolidateSentiment_NeutroFirst(rs) ==
  LET sentiments == SelectSeq(rs, LAMBDA c : c.sentiment # NoSentiment)
      n(label) == Len(SelectSeq(sentiments, LAMBDA c : c.sentiment = label))
      dominant == SortEntries(<< <<"neutro", n("neutro")>>,
                                 <<"negativo", n("negativo")>>,
                                 <<"positivo", n("positivo")>> >>)[1][1]
  IN IF Len(sentiments) = 0 THEN NoOverall
     ELSE [overall |-> dominant,
           score |-> IF dominant = "positivo" THEN "+0.5"
                     ELSE IF dominant = "negativo" THEN "-0.5" ELSE "0"]

\* the 'overall sentiment' part of consolidateChunkResults
consolidateSentiment(rs) ==
  LET sentiments == SelectSeq(rs, LAMBDA c : c.sentiment # NoSentiment)
      n(label) == Len(SelectSeq(sentiments, LAMBDA c : c.sentiment = label))
      dominant == SortEntries(<< <<"positivo", n("positivo")>>,
                                 <<"negativo", n("negativo")>>,
                                 <<"neutro", n("neutro")>> >>)[1][1]
  IN IF Len(sentiments) = 0 THEN NoOverall
     ELSE [overall |-> dominant,
           score |-> IF dominant = "positivo" THEN "+0.5"
                     ELSE IF dominant = "negativo" THEN "-0.5" ELSE "0"]

\* the consolidation without the merge of equal words and terms
consolidateChunkResults_Unmerged(rs) ==
  LET top == SortEntries(AllTopWords(rs))
      terms == SortEntries(AllLegalTerms(rs))
  IN [wordCount |-> SumWordCount(rs),
      topWords |-> [k \in 1..Min(5, Len(top)) |->
                      [word |-> top[k][1], count |-> top[k][2]]],
      legalTerms |-> [k \in 1..Len(terms) |->
                        [term |-> terms[k][1], count |-> terms[k][2]]],
      sentiment |-> consolidateSentiment(rs)]

\* consolidateChunkResults, without the parts computed from the original
\* text alone (characterCount, structure)
consolidateChunkResults(rs) ==
  LET top == SortEntries(MergeEntries(AllTopWords(rs)))
      terms == SortEntries(MergeEntries(AllLegalTerms(rs)))
  IN [wordCount |-> SumWordCount(rs),
      topWords |-> [k \in 1..Min(5, Len(top)) |->
                      [word |-> top[k][1], count |-> top[k][2]]],
      legalTerms |-> [k \in 1..Len(terms) |->
                        [term |-> terms[k][1], count |-> terms[k][2]]],
      sentiment |-> consolidateSentiment(rs)]

\* the percentage truncated instead of rounded
Percentage_Truncated(current, total) == (100 * current) \div total
\* Math.round((current / total) * 100)
Percentage(current, total) == (200 * current + total) \div (2 * total)

\* mutant of batchResults: the results of failed chunks are left out
batchResults_DropsFailed(out, lo, hi) ==
  SelectSeq([k \in 1..(hi - lo + 1) |-> out[lo + k - 1]],
            LAMBDA r : r.error = "")

\* await Promise.all(batchPromises): the batch's results in chunk order
batchResults(out, lo, hi) == [k \in 1..(hi - lo + 1) |-> out[lo + k - 1]]

NumChunks == Len(chunks)
\* a batch one chunk wider
BatchOf_SixWide(i) == (i + 1)..Min(i + BATCH_SIZE + 1, NumChunks)
\* the chunks of the batch that starts at 0-based index i
BatchOf(i) == (i + 1)..Min(i + BATCH_SIZE, NumChunks)
NoResult == [wordCount |-> -1]

RECURSIVE sentimentCalls(_, _)
\* batch.map(...) calls analyzeChunk for the chunks lo..hi in order, and each
\* call runs up to its await: the provider calls it makes, by chunk index
sentimentCalls(lo, hi) ==
  IF lo > hi THEN <<>>
  ELSE (IF needsSentiment(lo - 1) THEN <<lo - 1>> ELSE <<>>)
         \o sentimentCalls(lo + 1, hi)
\* the provider calls made when the batch at 0-based index i starts
batchCalls(i) ==
  IF BatchOf(i) = {} THEN <<>>
  ELSE sentimentCalls(CHOOSE a \in BatchOf(i) : \A b \in BatchOf(i) : a <= b,
                      CHOOSE a \in BatchOf(i) : \A b \in BatchOf(i) : a >= b)

InitChunksIdle ==
  /\ apc = "idle"
  /\ batchStart = 0
  /\ chunkResults = <<>>
  /\ processedChunks = 0
  /\ progressEvents = <<>>
  /\ aresult = NoResult

InitChunks ==
  /\ InitChunksIdle
  /\ providerCalls = <<>>
  /\ chunks = <<>>
  /\ chunkState = <<>>
  /\ outcome = <<>>
  /\ answer = <<>>

\* the chunks of the analysed text
InitChunkInput ==
  /\ InitChunksIdle
  /\ providerCalls = <<>>
  /\ \E n \in 1..MaxChunks, shift \in 0..2 :
       chunks = [i \in 1..n |-> ChunkPool[((i + shift) % 3) + 1]]
  /\ chunkState = [i \in 1..Len(chunks) |-> "pending"]
  /\ outcome = [i \in 1..Len(chunks) |-> NoResult]
  /\ answer = [i \in 1..Len(chunks) |-> NoSentiment]

\* analyzeWithChunking is called: the first batch's analyses start
startBatches ==
  /\ apc = "idle"
  /\ apc' = "await"
  /\ chunkState' = [i \in 1..NumChunks |->
                      IF i \in BatchOf(0) THEN "inflight" ELSE "pending"]
  /\ providerCalls' = providerCalls \o batchCalls(0)
  /\ UNCHANGED <<chunks, batchStart, outcome, answer, chunkResults,
                 processedChunks, progressEvents, aresult>>

StartChunked ==
  /\ startBatches
  /\ UNCHANGED <<jobVars, cacheVars, callVars, planVars, sideVars>>

\* the text whose chunks are analysed: longer than 2 * chunkSize
LongText == TextOf(2)

\* analyzeLegalText called with the long text, up to its first await: the
\* cache lookup, then on a miss validateInput and analyzeWithChunking
AnalyzeLongText ==
  /\ apc \in {"idle", "cached"}
  /\ LET r == cacheGet(cache, generateKey(LongText), now)
     IN /\ cache' = r.cache
        /\ hits' = IF r.hit THEN hits + 1 ELSE hits
        /\ misses' = IF r.hit THEN misses ELSE misses + 1
        /\ lastGet' = [key |-> generateKey(LongText), value |-> r.value]
        /\ IF r.hit
             THEN /\ apc' = "hit"
                  /\ aresult' = r.value
                  /\ UNCHANGED <<chunks, batchStart, chunkState, outcome,
                                 answer, chunkResults, processedChunks,
                                 progressEvents, providerCalls>>
             ELSE validateInput(LongText) /\ startBatches
  /\ UNCHANGED <<now, lastSet, jobVars, callVars, planVars, sideVars>>

\* analyzeLegalText after analyzeWithChunking returned: cacheService.set with
\* the result, which is then returned
CacheChunked ==
  /\ apc = "done"
  /\ apc' = "cached"
  /\ cache' = cacheSet(cache, generateKey(LongText), aresult, Omitted, now)
  /\ lastSet' = [lastSet EXCEPT ![generateKey(LongText)] =
                   cache'[generateKey(LongText)]]
  /\ UNCHANGED <<hits, misses, now, lastGet>>
  /\ UNCHANGED <<chunks, batchStart, chunkState, outcome, answer,
                 chunkResults, processedChunks, progressEvents, aresult,
                 providerCalls>>
  /\ UNCHANGED <<jobVars, callVars, planVars, sideVars>>

\* analyzeChunk of chunk i resolves, the provider having answered s (for the
\* first three chunks): processedChunks++ and the 'progress' event
ChunkOk(i, s) ==
  /\ apc = "await"
  /\ i \in 1..NumChunks
  /\ chunkState[i] = "inflight"
  /\ IF needsSentiment(i - 1) THEN s \in ProviderAnswers \cup {NoSentiment}
                  ELSE s = NoSentiment
  /\ chunkState' = [chunkState EXCEPT ![i] = "ok"]
  /\ answer' = [answer EXCEPT ![i] = s]
  /\ outcome' = [outcome EXCEPT ![i] = analyzeChunk(chunks[i], i - 1, s)]
  /\ processedChunks' = processedChunks + 1
  /\ progressEvents' = Append(progressEvents,
       [current |-> processedChunks + 1, total |-> NumChunks,
        percentage |-> Percentage(processedChunks + 1, NumChunks)])
  /\ UNCHANGED <<apc, chunks, batchStart, chunkResults, aresult, providerCalls>>
  /\ UNCHANGED <<jobVars, cacheVars, callVars, planVars, sideVars>>

\* analyzeChunk of chunk i throws: the catch returns the degraded result
ChunkFail(i) ==
  /\ apc = "await"
  /\ i \in 1..NumChunks
  /\ chunkState[i] = "inflight"
  /\ chunkState' = [chunkState EXCEPT ![i] = "failed"]
  /\ outcome' = [outcome EXCEPT ![i] = Degraded(i - 1)]
  /\ UNCHANGED <<apc, chunks, batchStart, answer, chunkResults,
                 processedChunks, progressEvents, aresult, providerCalls>>
  /\ UNCHANGED <<jobVars, cacheVars, callVars, planVars, sideVars>>

\* Promise.all of the batch resolves: push its results, then start the next
\* batch or consolidate and return
BatchDone ==
  /\ apc = "await"
  /\ \A i \in BatchOf(batchStart) : chunkState[i] \in {"ok", "failed"}
  /\ LET hi == Min(batchStart + BATCH_SIZE, NumChunks)
         rs == chunkResults \o batchResults(outcome, batchStart + 1, hi)
         next == batchStart + BATCH_SIZE
     IN /\ chunkResults' = rs
        /\ batchStart' = next
        /\ IF next < NumChunks
             THEN /\ chunkState' = [i \in 1..NumChunks |->
                                      IF i \in BatchOf(next) THEN "inflight"
                                      ELSE chunkState[i]]
                  /\ providerCalls' = providerCalls \o batchCalls(next)
                  /\ UNCHANGED <<apc, aresult>>
             ELSE /\ apc' = "done"
                  /\ aresult' = consolidateChunkResults(rs)
                                @@ [chunksProcessed |-> processedChunks]
                  /\ UNCHANGED <<chunkState, providerCalls>>
  /\ UNCHANGED <<chunks, outcome, answer, processedChunks, progressEvents>>
  /\ UNCHANGED <<jobVars, cacheVars, callVars, planVars, sideVars>>

(* ------------------- AnalysisWorker: progress reporting ---------------- *)
\* totalChunks of the analysis running under each analysis id
ChunkCount(a) == IF a = Inline THEN 2 ELSE a + 1

\* the executions whose progressHandler is registered on the analysis
\* service: from the end of the 'processing' write to the finally of processJob
Listeners == {e \in BagToSet(execs) : e.pc \in {"analyze", "complete"}}

\* progressHandler and updateJobProgress up to its await: the store write
\* issued by the handler of execution e for an event with this percentage
progressHandler(e, active, percentage) ==
  IF e.id \in active THEN {[id |-> e.id, progress |-> percentage]} ELSE {}

\* legalTextAnalysisService.emit('progress', ...): every registered handler runs
emitProgress(percentage) ==
  UNION {progressHandler(e, activeJobs, percentage) : e \in Listeners}

\* a chunk of the analysis of execution e completes: processedChunks++ and
\* the 'progress' event
JobChunk(e) ==
  /\ e \in BagToSet(execs)
  /\ e.pc = "analyze"
  /\ chunksDone[e.id] < ChunkCount(e.id)
  /\ chunksDone' = [chunksDone EXCEPT ![e.id] = @ + 1]
  /\ progressWrites' = progressWrites \cup
       emitProgress(Percentage(chunksDone[e.id] + 1, ChunkCount(e.id)))
  /\ UNCHANGED <<queueVars, workerVars, records, historyVars, inlinePc,
                 submitVars>>
  /\ UNCHANGED notJobVars

\* a chunk of the controller's inline analysis completes
InlineChunk ==
  /\ inlinePc = "running"
  /\ chunksDone' = [chunksDone EXCEPT ![Inline] = @ + 1]
  /\ progressWrites' = progressWrites \cup
       emitProgress(Percentage(chunksDone[Inline] + 1, ChunkCount(Inline)))
  /\ inlinePc' = IF chunksDone[Inline] + 1 = ChunkCount(Inline)
                   THEN "done" ELSE "running"
  /\ UNCHANGED <<queueVars, workerVars, records, historyVars, submitVars>>
  /\ UNCHANGED notJobVars

\* updateJobProgress: its store write lands
ProgressLand(w) ==
  /\ w \in progressWrites
  /\ progressWrites' = progressWrites \ {w}
  /\ records' = [records EXCEPT ![w.id].progress = w.progress]
  /\ UNCHANGED <<queueVars, workerVars, historyVars, chunksDone, inlinePc,
                 submitVars>>
  /\ UNCHANGED notJobVars

\* analyzeLegalText returns once every chunk of the analysis has completed
AnalyzeDone(e) ==
  /\ e \in BagToSet(execs)
  /\ chunksDone[e.id] = ChunkCount(e.id)
  /\ Analyze(e, TRUE)

(* ------------------------ submission (controller) ---------------------- *)
\* the limit of the request schema for the text field
schemaMaxLength == 2000000
\* texts shorter than this are analysed inline by the controller
smallTextLimit == 50000

\* submitted texts: empty, whitespace only, small, at the inline limit, queued
\* sizes, the largest accepted size, one character more
SubmitTexts == {[len |-> 0, blank |-> FALSE],
                [len |-> 60000, blank |-> TRUE],
                [len |-> 7000, blank |-> FALSE],
                [len |-> 50000, blank |-> FALSE],
                [len |-> 60000, blank |-> FALSE],
                [len |-> 2000000, blank |-> FALSE],
                [len |-> 2000001, blank |-> FALSE]}

\* sanitizeInput on the text field: String.prototype.trim
sanitizeValue(text) ==
  IF text.blank THEN [len |-> 0, blank |-> FALSE] ELSE text

\* validateTextAnalysis: Joi.string().required().min(1).max(2000000)
textAnalysisSchema(text) == text.len >= 1 /\ text.len <= schemaMaxLength

\* processFile accepts the extracted text unless it is empty or blank
extractionAccepted(text) == text.len > 0 /\ ~text.blank

isSmallText(text) == text.len < smallTextLimit

\* the request is answered 400 before the controller's analysis or addJob
Rejected(path, text) ==
  /\ lastRequest' = [path |-> path, text |-> text, status |-> 400]
  /\ UNCHANGED <<queueVars, workerVars, records, historyVars, progressVars,
                 lastAdded>>
  /\ UNCHANGED notJobVars

\* the controller's inline path: analyzeLegalText runs in the request
InlinePath(path, raw, text) ==
  /\ inlinePc = "idle"
  /\ inlinePc' = IF text.len > 2 * chunkSize THEN "running" ELSE "done"
  /\ chunksDone' = [chunksDone EXCEPT ![Inline] = 0]
  /\ lastRequest' = [path |-> path, text |-> raw, status |-> 200]
  /\ UNCHANGED <<queueVars, workerVars, records, historyVars, progressWrites,
                 lastAdded>>
  /\ UNCHANGED notJobVars

\* POST /analyze-text: sanitizeInput, validateTextAnalysis, analyzeText
AnalyzeTextRequest(raw) ==
  LET text == sanitizeValue(raw)
  IN IF ~textAnalysisSchema(text) THEN Rejected("text", raw)
     ELSE IF isSmallText(text) THEN InlinePath("text", raw, text)
     ELSE /\ QueuedPath(text, 1)
          /\ lastRequest' = [path |-> "text", text |-> raw, status |-> 202]

\* POST /analyze-file, for a file whose extracted text is raw
AnalyzeFileRequest(raw) ==
  IF ~extractionAccepted(raw) THEN Rejected("file", raw)
  ELSE IF isSmallText(raw) THEN InlinePath("file", raw, raw)
  ELSE /\ QueuedPath(raw, 2)
       /\ lastRequest' = [path |-> "file", text |-> raw, status |-> 202]

(* ------------------- QueueService called by any caller ----------------- *)
\* text lengths around the priority thresholds
QueueLengths == {10000, 50000, 100000, 100001}
\* priorities a caller may put in the job it hands to addJob
CallerPriorities == {0, 7}

Enqueue(len, priority) ==
  /\ QueuedPath([len |-> len, blank |-> FALSE], priority)
  /\ UNCHANGED lastRequest

\* getNextJob called outside the worker
Claim ==
  /\ processing' = getNextJob(memoryQueue, processing).processing
  /\ UNCHANGED <<memoryQueue, timers, workerVars, records, historyVars,
                 progressVars, submitVars>>
  /\ UNCHANGED notJobVars

CompleteJob(id) ==
  /\ id \in processing
  /\ LET c == completeJob(memoryQueue, processing, id)
     IN /\ memoryQueue' = c.memoryQueue
        /\ processing' = c.processing
  /\ UNCHANGED <<timers, workerVars, records, historyVars, progressVars,
                 submitVars>>
  /\ UNCHANGED notJobVars

FailJob(id) ==
  /\ id \in processing
  /\ LET f == failJob(memoryQueue, processing, timers, id)
     IN /\ memoryQueue' = f.memoryQueue
        /\ processing' = f.processing
        /\ timers' = f.timers
        /\ failedEmits' = IF f.emitFailed THEN Bump(failedEmits, id)
                          ELSE failedEmits
  /\ UNCHANGED <<workerVars, records, started, succeeded, progressVars,
                 submitVars>>
  /\ UNCHANGED notJobVars

(* --------------- LegalTextAnalysisService.createChunks ----------------- *)
\* config.textProcessing.minChunkSize
minChunkSize == 500

\* A string is a sequence of atoms.  An atom is a run of line breaks (nl), a
\* paragraph of blanks only (blank, not nl), or a paragraph with content,
\* which starts and ends with a visible character, holds no line break and,
\* when art is set, starts with "Art. <number>".  id is the position of the
\* paragraph in the source, 0 for a run of line breaks.
NL(k) == [id |-> 0, len |-> k, nl |-> TRUE, blank |-> TRUE, art |-> FALSE]

\* lengths of the paragraphs of a source text
ParagraphLengths == {300, 600, 2600, 7000}
\* a paragraph as written in the source: sep line breaks come before it
ParagraphPool ==
  [len : ParagraphLengths, art : BOOLEAN, blank : {FALSE}, sep : {1, 2}]
    \cup [len : {3}, art : {FALSE}, blank : {TRUE}, sep : {1, 2}]

RECURSIVE SourceText(_, _)
SourceText(ps, n) ==
  IF n = 0 THEN <<>>
  ELSE LET p == [id |-> n, len |-> ps[n].len, nl |-> FALSE,
                 blank |-> ps[n].blank, art |-> ps[n].art]
       IN IF n = 1 THEN <<p>>
          ELSE SourceText(ps, n - 1) \o <<NL(ps[n].sep), p>>

PlanTexts ==
  {SourceText(ps, Len(ps)) :
     ps \in UNION {[1..n -> ParagraphPool] : n \in 0..MaxParagraphs}}

RECURSIVE Length(_)
\* string.length
Length(s) == IF s = <<>> THEN 0 ELSE Head(s).len + Length(Tail(s))

\* s.trim() is the empty string
IsBlank(s) == \A i \in 1..Len(s) : s[i].blank

\* string.trim()
Trim(s) ==
  LET visible == {i \in 1..Len(s) : ~s[i].blank}
  IN IF visible = {} THEN <<>>
     ELSE SubSeq(s, CHOOSE i \in visible : \A j \in visible : i <= j,
                    CHOOSE i \in visible : \A j \in visible : i >= j)

\* the atoms where /(?=\n\s*[Aa]rt\.?\s*\d+)/ finds its article: an article
\* paragraph with a line break before it
ArticleStarts(text) ==
  {i \in 2..Len(text) : text[i].art /\ ~text[i].blank /\ text[i - 1].nl}

\* the white space that ends a segment, less the line break that the
\* lookahead leaves in front of the article
GapBefore(cur) ==
  LET visible == {i \in 1..Len(cur) : ~cur[i].blank}
      last == IF visible = {} THEN 0
              ELSE CHOOSE i \in visible : \A j \in visible : i >= j
      gap == SubSeq(cur, last + 1, Len(cur))
      n == Len(gap)
  IN [body |-> SubSeq(cur, 1, last),
      gap |-> IF gap[n].len = 1 THEN SubSeq(gap, 1, n - 1)
              ELSE [gap EXCEPT ![n] = NL(gap[n].len - 1)]]

RECURSIVE articleSplit(_, _, _)
\* text.split(articlePattern): the pattern matches at every line break that
\* only white space separates from the article, so the white space before an
\* article falls into segments of its own
articleSplit(text, i, cur) ==
  IF i > Len(text) THEN <<cur>>
  ELSE IF i \in ArticleStarts(text)
       THEN LET g == GapBefore(cur)
            IN <<g.body, g.gap>> \o articleSplit(text, i + 1, <<NL(1), text[i]>>)
       ELSE articleSplit(text, i + 1, Append(cur, text[i]))

RECURSIVE paragraphSplit(_, _, _)
\* text.split(/\n\n+/)
paragraphSplit(text, i, cur) ==
  IF i > Len(text) THEN <<cur>>
  ELSE IF text[i].nl /\ text[i].len >= 2
       THEN <<cur>> \o paragraphSplit(text, i + 1, <<>>)
       ELSE paragraphSplit(text, i + 1, Append(cur, text[i]))

\* .filter(s => s.trim())
NotBlank(s) == ~IsBlank(s)
articleSplits(text) == SelectSeq(articleSplit(text, 1, <<>>), NotBlank)
paragraphs(text) == SelectSeq(paragraphSplit(text, 1, <<>>), NotBlank)

\* the accumulator of the merge loop: the string, and how each segment came
\* into it (the length of the accumulator the segment met, and the branch)
EmptyChunk == [str |-> <<>>, parts |-> <<>>]
\* chunks.push(currentChunk.trim())
Pushed(currentChunk) ==
  [str |-> Trim(currentChunk.str), parts |-> currentChunk.parts]

\* the flush that skips the trailing accumulator
flushTrailing_Skipped(currentChunk) == <<>>
\* if (currentChunk.trim()) chunks.push(currentChunk.trim())
flushTrailing(currentChunk) ==
  IF NotBlank(currentChunk.str) THEN <<Pushed(currentChunk)>> ELSE <<>>

RECURSIVE mergeSegments(_, _, _, _)
\* the accumulate/flush loop over the segments, joined by sep line breaks
mergeSegments(segments, i, currentChunk, sep) ==
  IF i > Len(segments) THEN flushTrailing(currentChunk)
  ELSE LET segment == segments[i]
           before == Length(currentChunk.str)
       IN IF before + Length(segment) > chunkSize /\ before > minChunkSize
          THEN <<Pushed(currentChunk)>> \o
               mergeSegments(segments, i + 1,
                 [str |-> segment,
                  parts |-> <<[before |-> before, len |-> Length(segment),
                               via |-> "start"]>>], sep)
          ELSE mergeSegments(segments, i + 1,
                 [str |-> currentChunk.str \o <<NL(sep)>> \o segment,
                  parts |-> Append(currentChunk.parts,
                              [before |-> before, len |-> Length(segment),
                               via |-> "append"])], sep)

createChunks(text) ==
  IF Len(articleSplits(text)) > 1
  THEN mergeSegments(articleSplits(text), 1, EmptyChunk, 1)
  ELSE mergeSegments(paragraphs(text), 1, EmptyChunk, 2)

\* the segments the merge loop of createChunks runs over, and their separator
segmentsOf(text) ==
  IF Len(articleSplits(text)) > 1 THEN articleSplits(text) ELSE paragraphs(text)
joinLength(text) == IF Len(articleSplits(text)) > 1 THEN 1 ELSE 2

\* the paragraphs with content of a string, in order
Content(s) == SelectSeq(s, LAMBDA a : ~a.blank)
ContentIds(s) == {s[i].id : i \in {j \in 1..Len(s) : ~s[j].blank}}
RECURSIVE Concat(_)
Concat(ss) == IF ss = <<>> THEN <<>> ELSE Head(ss) \o Concat(Tail(ss))
ChunkStrings(cs) == [k \in 1..Len(cs) |-> cs[k].str]


\* analyzeLegalText: const needsChunking
needsChunking(text) == Length(text) > chunkSize * 2

PlanInit ==
  /\ ptext \in PlanTexts
  /\ ppc = "input"
  /\ planned = <<>>

CreateChunks ==
  /\ ppc = "input"
  /\ planned' = createChunks(ptext)
  /\ ppc' = "done"
  /\ UNCHANGED <<ptext, jobVars, cacheVars, callVars, chunkVars, sideVars>>

InitPlan ==
  /\ ptext = <<>>
  /\ ppc = "idle"
  /\ planned = <<>>

(* ------------------- getTopWords over a token stream ------------------- *)
\* the words of the token streams, none of them a stopword or short
WordPool == <<"prazo", "contrato", "multa", "texto", "juiz", "autor", "parte">>
\* the limits getTopWords is called with (performBasicAnalysis, analyzeChunk)
TopLimits == {5, 10}

RECURSIVE StreamPass(_, _, _, _)
\* the words that occur at least r times, in the order ord, from position i
StreamPass(counts, ord, r, i) ==
  IF i > Len(ord) THEN <<>>
  ELSE (IF counts[ord[i]] >= r THEN <<WordPool[ord[i]]>> ELSE <<>>)
         \o StreamPass(counts, ord, r, i + 1)

RECURSIVE TokenStream(_, _, _)
\* a token stream in which word i occurs counts[i] times and the words are
\* first seen in the order ord
TokenStream(counts, ord, r) ==
  IF r > MaxCount THEN <<>>
  ELSE StreamPass(counts, ord, r, 1) \o TokenStream(counts, ord, r + 1)

WordStreams ==
  UNION {{TokenStream(counts, ord, 1) :
            counts \in [1..n -> 1..MaxCount],
            ord \in {[i \in 1..n |-> i], [i \in 1..n |-> n + 1 - i]}} :
         n \in 0..MaxWords}

WordsInput ==
  /\ wtokens \in WordStreams
  /\ wpc = "input"
  /\ wtop = [limit |-> 0, words |-> <<>>]

\* getTopWords(calculateWordFrequency(words), limit)
GetTopWords(limit) ==
  /\ wpc = "input"
  /\ wtop' = [limit |-> limit,
              words |-> getTopWords(calculateWordFrequency(wtokens), limit)]
  /\ wpc' = "done"
  /\ UNCHANGED <<wtokens, keyLog, bull, jobVars, cacheVars, callVars,
                 chunkVars, planVars>>

NoTopWords == [limit |-> 0, words |-> <<>>]
\* a job the broker does not hold yet; a Bull job's progress starts at 0
IdleBull == [pc |-> "idle", attemptsMade |-> 0, progress |-> 0]

InitWords ==
  /\ wtokens = <<>>
  /\ wpc = "idle"
  /\ wtop = NoTopWords

InitSide ==
  /\ InitWords
  /\ keyLog = <<>>
  /\ bull = [j \in JobIds |-> IdleBull]

(* ------------- AnalysisWorker: jobs of the Bull (Redis) queue ----------- *)
\* the frame of the steps of a Bull job: with the Redis backend addJob does
\* not touch memoryQueue and getNextJob returns null
bullFrame == <<queueVars, workerVars, historyVars, inlinePc, submitVars,
               cacheVars, callVars, chunkVars, planVars, wordVars, keyLog>>

BullActive == {j \in JobIds : bull[j].pc \in {"start", "analyze", "complete",
                                               "catch"}}

\* the controller's queued path with the Redis backend: create the record,
\* then QueueService.addJob calls queue.add
BullAdd(j) ==
  /\ bull[j].pc = "idle"
  /\ \A k \in JobIds : k < j => bull[k].pc # "idle"
  /\ bull' = [bull EXCEPT ![j].pc = "waiting"]
  /\ records' = [records EXCEPT ![j] = [status |-> "processing",
                                        progress |-> 0]]
  /\ UNCHANGED <<chunksDone, progressWrites, bullFrame>>

\* the consumer registered by bullQueue.process(concurrency, processBullJob)
\* takes a waiting job: processBullJob sets the Bull progress to 0 and calls
\* processJob
BullTake(j) ==
  /\ listening
  /\ bull[j].pc = "waiting"
  /\ Cardinality(BullActive) < concurrency
  /\ bull' = [bull EXCEPT ![j].pc = "start", ![j].progress = 0]
  /\ UNCHANGED <<records, chunksDone, progressWrites, bullFrame>>

\* processJob: the store write of status 'processing', progress 0
BullWriteProcessing(j, ok) ==
  /\ bull[j].pc = "start"
  /\ bull' = [bull EXCEPT ![j].pc = IF ok THEN "analyze" ELSE "catch"]
  /\ records' = IF ok THEN [records EXCEPT ![j] = [status |-> "processing",
                                                   progress |-> 0]]
                ELSE records
  /\ chunksDone' = IF ok THEN [chunksDone EXCEPT ![j] = 0] ELSE chunksDone
  /\ UNCHANGED <<progressWrites, bullFrame>>

\* the Bull jobs whose progressHandler is registered on the analysis service
BullListeners == {j \in JobIds : bull[j].pc \in {"analyze", "complete"}}

\* a chunk of the analysis of Bull job j completes: processedChunks++ and the
\* 'progress' event, which every registered progressHandler receives
BullChunk(j) ==
  /\ bull[j].pc = "analyze"
  /\ chunksDone[j] < ChunkCount(j)
  /\ chunksDone' = [chunksDone EXCEPT ![j] = @ + 1]
  /\ progressWrites' = progressWrites \cup
       UNION {progressHandler([id |-> k], activeJobs,
                              Percentage(chunksDone[j] + 1, ChunkCount(j))) :
                k \in BullListeners}
  /\ UNCHANGED <<bull, records, bullFrame>>

\* updateJobProgress with a bullJob: the store write lands, then
\* bullJob.progress(progress)
BullProgressLand(w) ==
  /\ w \in progressWrites
  /\ progressWrites' = progressWrites \ {w}
  /\ records' = [records EXCEPT ![w.id].progress = w.progress]
  /\ bull' = [bull EXCEPT ![w.id].progress = w.progress]
  /\ UNCHANGED <<chunksDone, bullFrame>>

\* analyzeLegalText returns once every chunk has completed, or throws
BullAnalyze(j, ok) ==
  /\ bull[j].pc = "analyze"
  /\ ok => chunksDone[j] = ChunkCount(j)
  /\ bull' = [bull EXCEPT ![j].pc = IF ok THEN "complete" ELSE "catch"]
  /\ UNCHANGED <<records, chunksDone, progressWrites, bullFrame>>

\* processJob: the store write of status 'completed'; processBullJob then
\* resolves and Bull marks the job completed
BullWriteCompleted(j, ok) ==
  /\ bull[j].pc = "complete"
  /\ bull' = [bull EXCEPT ![j].pc = IF ok THEN "completed" ELSE "catch"]
  /\ records' = IF ok THEN [records EXCEPT ![j] = [status |-> "completed",
                                                   progress |-> 100]]
                ELSE records
  /\ UNCHANGED <<chunksDone, progressWrites, bullFrame>>

\* processJob's catch with a bullJob: the store write of status 'failed', no
\* failJob, and the rethrow through processBullJob; Bull counts the attempt
\* and retries until the attempts option (config.queue.maxRetries) is used up
BullWriteFailed(j, ok) ==
  /\ bull[j].pc = "catch"
  /\ bull' = [bull EXCEPT ![j].attemptsMade = @ + 1,
                          ![j].pc = IF bull[j].attemptsMade + 1 < maxRetries
                                      THEN "waiting" ELSE "failed"]
  /\ records' = IF ok THEN [records EXCEPT ![j].status = "failed"] ELSE records
  /\ UNCHANGED <<chunksDone, progressWrites, bullFrame>>

Init ==
  InitJobs /\ InitCache /\ InitCalls /\ InitChunks /\ InitPlan /\ InitSide

Next ==
  \/ Start
  \/ PollWake
  \/ \E len \in TextLengths : AddJob(len)
  \/ \E t \in timers : TimerFire(t)
  \/ \E e \in BagToSet(execs), ok \in BOOLEAN : WriteProcessing(e, ok)
  \/ \E e \in BagToSet(execs), ok \in BOOLEAN : Analyze(e, ok)
  \/ \E e \in BagToSet(execs), ok \in BOOLEAN : WriteCompleted(e, ok)
  \/ \E e \in BagToSet(execs), ok \in BOOLEAN : WriteFailed(e, ok)

Spec == Init /\ [][Next]_vars

CacheNext ==
  \/ Tick
  \/ Cleanup
  \/ \E t \in Texts, v \in Results, ttl \in TtlArgs :
       validateInput(t) /\ CacheSet(generateKey(t), v, ttl)
  \/ \E k \in Keys : CacheGet(k)
  \/ \E k \in Keys : CacheDelete(k)
  \/ CacheClear

CacheSpec == Init /\ [][CacheNext]_vars

AnalysisNext ==
  \/ Tick
  \/ Cleanup
  \/ \E k \in Keys : CacheDelete(k)
  \/ CacheClear
  \/ \E c \in Callers, t \in Texts : Call(c, t)
  \/ \E c \in Callers, r \in Results : Finish(c, r)
  \/ \E c \in Callers : Return(c)

AnalysisSpec == Init /\ [][AnalysisNext]_vars

ChunkInit ==
  InitJobs /\ InitCache /\ InitCalls /\ InitChunkInput /\ InitPlan /\ InitSide

\* a text whose chunks are taken from WidePool, in any order
WideInit ==
  /\ InitJobs /\ InitCache /\ InitCalls /\ InitPlan /\ InitSide
  /\ InitChunksIdle
  /\ providerCalls = <<>>
  /\ \E n \in 2..3, first \in 1..3, second \in 1..3 :
       chunks = [i \in 1..n |->
                   WidePool[IF i = 1 THEN first
                            ELSE IF i = 2 THEN second ELSE 2]]
  /\ chunkState = [i \in 1..Len(chunks) |-> "pending"]
  /\ outcome = [i \in 1..Len(chunks) |-> NoResult]
  /\ answer = [i \in 1..Len(chunks) |-> NoSentiment]

ChunkNext ==
  \/ StartChunked
  \/ \E i \in 1..MaxChunks, s \in ProviderAnswers \cup {NoSentiment} :
       ChunkOk(i, s)
  \/ \E i \in 1..MaxChunks : ChunkFail(i)
  \/ BatchDone

ChunkSpec == ChunkInit /\ [][ChunkNext]_vars

ProgressNext ==
  \/ Start
  \/ PollWake
  \/ \E len \in TextLengths : AddJob(len)
  \/ AnalyzeTextRequest([len |-> 7000, blank |-> FALSE])
  \/ \E e \in BagToSet(execs) : WriteProcessing(e, TRUE)
  \/ \E e \in BagToSet(execs) : JobChunk(e)
  \/ InlineChunk
  \/ \E w \in progressWrites : ProgressLand(w)
  \/ \E e \in BagToSet(execs) : AnalyzeDone(e)
  \/ \E e \in BagToSet(execs) : WriteCompleted(e, TRUE)

ProgressSpec == Init /\ [][ProgressNext]_vars

SubmitNext ==
  \/ \E t \in SubmitTexts : AnalyzeTextRequest(t)
  \/ \E t \in SubmitTexts : AnalyzeFileRequest(t)

SubmitSpec == Init /\ [][SubmitNext]_vars

QueueNext ==
  \/ \E len \in QueueLengths, p \in CallerPriorities : Enqueue(len, p)
  \/ Claim
  \/ \E id \in JobIds : CompleteJob(id)
  \/ \E id \in JobIds : FailJob(id)
  \/ \E t \in timers : TimerFire(t)

QueueSpec == Init /\ [][QueueNext]_vars

PlanNext == CreateChunks

PlanStart ==
  InitJobs /\ InitCache /\ InitCalls /\ InitChunks /\ PlanInit /\ InitSide

PlanSpec == PlanStart /\ [][PlanNext]_vars

WordsInit ==
  /\ InitJobs /\ InitCache /\ InitCalls /\ InitChunks /\ InitPlan
  /\ WordsInput
  /\ keyLog = <<>>
  /\ bull = [j \in JobIds |-> IdleBull]

WordsNext == \E limit \in TopLimits : GetTopWords(limit)

WordsSpec == WordsInit /\ [][WordsNext]_vars

KeyNext ==
  \/ \E t \in Texts : GenerateKey(t)
  \/ \E t \in Texts, v \in Results :
       validateInput(t) /\ CacheSet(generateKey(t), v, Omitted)
  \/ \E k \in Keys : CacheGet(k)
  \/ \E k \in Keys : CacheDelete(k)
  \/ CacheClear

KeySpec == Init /\ [][KeyNext]_vars

\* the worker with the Redis backend. No store write of updateJobProgress is
\* ever pending here (BullProgressNeverIssued), so BullProgressLand has no step.
BullNext ==
  \/ Start
  \/ PollWake
  \/ \E j \in JobIds : BullAdd(j)
  \/ \E j \in JobIds : BullTake(j)
  \/ \E j \in JobIds, ok \in BOOLEAN : BullWriteProcessing(j, ok)
  \/ \E j \in JobIds : BullChunk(j)
  \/ \E j \in JobIds, ok \in BOOLEAN : BullAnalyze(j, ok)
  \/ \E j \in JobIds, ok \in BOOLEAN : BullWriteCompleted(j, ok)
  \/ \E j \in JobIds, ok \in BOOLEAN : BullWriteFailed(j, ok)

BullSpec == Init /\ [][BullNext]_vars

\* submissions of texts while results of earlier analyses are in the cache
FlowNext ==
  \/ Tick
  \/ \E t \in Texts : Call(1, t)
  \/ \E r \in Results : Finish(1, r)
  \/ Return(1)
  \/ \E t \in Texts : AnalyzeTextRequest(t)

FlowSpec == Init /\ [][FlowNext]_vars

\* the worker on the in-memory queue, started and stopped
StopNext ==
  \/ Start
  \/ Stop
  \/ PollWake
  \/ \E len \in TextLengths : AddJob(len)
  \/ \E t \in timers : TimerFire(t)
  \/ \E e \in BagToSet(execs), ok \in BOOLEAN : WriteProcessing(e, ok)
  \/ \E e \in BagToSet(execs), ok \in BOOLEAN : Analyze(e, ok)
  \/ \E e \in BagToSet(execs), ok \in BOOLEAN : WriteCompleted(e, ok)
  \/ \E e \in BagToSet(execs), ok \in BOOLEAN : WriteFailed(e, ok)

StopSpec == Init /\ [][StopNext]_vars

\* analyzeLegalText of a long text, submitted once and submitted again
LongTextNext ==
  \/ AnalyzeLongText
  \/ \E i \in 1..MaxChunks, s \in ProviderAnswers \cup {NoSentiment} :
       ChunkOk(i, s)
  \/ \E i \in 1..MaxChunks : ChunkFail(i)
  \/ BatchDone
  \/ CacheChunked

LongTextSpec == ChunkInit /\ [][LongTextNext]_vars

WideSpec == WideInit /\ [][ChunkNext]_vars

\* the in-memory queue called by any caller, with the backoff timers firing
TimedQueueNext ==
  \/ \E len \in TextLengths : AddJob(len)
  \/ Claim
  \/ \E id \in JobIds : CompleteJob(id)
  \/ \E id \in JobIds : FailJob(id)
  \/ \E t \in timers : TimerFire(t)

TimedQueueSpec == Init /\ [][TimedQueueNext]_vars

\* weak fairness: timers fire, the loop's delay ends, every store write and
\* every analysis ends
Fairness ==
  /\ WF_vars(Start)
  /\ WF_vars(PollWake)
  /\ WF_vars(\E t \in timers : TimerFire(t))
  /\ WF_vars(\E e \in BagToSet(execs), ok \in BOOLEAN : WriteProcessing(e, ok))
  /\ WF_vars(\E e \in BagToSet(execs), ok \in BOOLEAN : Analyze(e, ok))
  /\ WF_vars(\E e \in BagToSet(execs), ok \in BOOLEAN : WriteCompleted(e, ok))
  /\ WF_vars(\E e \in BagToSet(execs), ok \in BOOLEAN : WriteFailed(e, ok))

FairSpec == Init /\ [][Next]_vars /\ Fairness

(* ------------------------------ claims --------------------------------- *)
Submitted(j) == records[j].status # "none"
Dropped(j) == failedEmits[j] > 0

\* C1: a job has at most one execution in flight at any time: getNextJob
\* never hands out a job whose previous claim has not ended.
C1_OneExecutionPerJob == \A j \in JobIds : InFlight(j) <= 1

\* C2: the number of executions in flight never exceeds the configured
\* concurrency.
C2_AtMostNInFlight == BagCardinality(execs) <= concurrency

\* C3: while the worker runs, every job added to the queue eventually reaches
\* a terminal outcome (completed, or dropped after maxRetries attempts).
C3_EveryJobTerminates ==
  \A j \in JobIds : Submitted(j) ~> (j \in succeeded \/ Dropped(j))

\* C4: a job whose every execution fails is executed at most maxRetries times;
\* once its attempts reach maxRetries it is out of the queue, 'job:failed' was
\* emitted exactly once and its persisted status is 'failed'.
C4_FailingJobBounded ==
  \A j \in JobIds :
    j \notin succeeded =>
      /\ started[j] <= maxRetries
      /\ failedEmits[j] <= 1
      /\ Dropped(j) =>
           /\ j \notin QueueIds(memoryQueue)
           /\ InFlight(j) = 0 => records[j].status = "failed"

\* C5: a job with a successful execution has persisted status 'completed', is
\* neither in the queue list nor in the claimed set, and stays so.
C5_SucceededStaysCompleted ==
  \A j \in succeeded :
    /\ records[j].status = "completed"
    /\ j \notin QueueIds(memoryQueue)
    /\ j \notin processing

\* C6: while the backoff timer of a failure is pending, getNextJob does not
\* return the failed job.
C6_NoDispatchBeforeBackoff ==
  [][\A j \in JobIds :
       (\E t \in timers \cap timers' : t.id = j) => started'[j] = started[j]]_vars

\* C7: 'completed' is terminal: no later write changes the status of a
\* completed record.
C7_CompletedIsTerminal ==
  [][\A j \in JobIds :
       records[j].status = "completed" => records'[j].status = "completed"]_vars

LiveEntry(text) ==
  /\ cache[generateKey(text)].present
  /\ now <= cache[generateKey(text)].expiresAt

C9_GetHonoursExpiry ==
  [][\A k \in Keys :
       (hits' + misses' = hits + misses + 1 /\ lastGet'.key = k)
       => LET live == lastSet[k].present /\ now <= lastSet[k].expiresAt
          IN /\ lastGet'.value = IF live THEN lastSet[k].data ELSE Null
             /\ ~live => ~cache'[k].present
             /\ live => cache'[k] = lastSet[k]]_vars

C9_Witness ==
  \E k \in Keys :
    /\ lastSet[k].present
    /\ now > lastSet[k].expiresAt
    /\ lastGet = [key |-> k, value |-> Null]
    /\ ~cache[k].present
    /\ hits > 0

\* C10: partial chunk failure is absorbed: when analyzeWithChunking has
\* returned, it returned a consolidated result; every chunk whose analysis
\* threw contributes the degraded ChunkResult (wordCount 0, empty topWords and
\* legalTerms, the error marker) and every other chunk the ChunkResult its
\* analysis produces when no chunk fails.
C10_PartialFailureAbsorbed ==
  apc = "done" =>
    /\ aresult # NoResult
    /\ aresult.chunksProcessed =
         Cardinality({i \in 1..NumChunks : chunkState[i] = "ok"})
    /\ Len(chunkResults) = NumChunks
    /\ \A i \in 1..NumChunks :
         chunkResults[i] =
           IF chunkState[i] = "failed"
             THEN [chunkIndex |-> i - 1, sentiment |-> NoSentiment,
                   topWords |-> <<>>, legalTerms |-> <<>>, wordCount |-> 0,
                   error |-> "Falha ao analisar chunk"]
             ELSE analyzeChunk(chunks[i], i - 1, answer[i])

C10_Witness ==
  /\ apc = "done"
  /\ NumChunks > BATCH_SIZE
  /\ \E i, k \in 1..NumChunks :
       /\ i < k
       /\ chunkState[i] = "failed"
       /\ chunkState[k] = "ok"
       /\ chunkResults[k].wordCount > 0

\* a progress write of job j lands in this step while the job is processing
ProgressLands(j) ==
  /\ progressWrites' # progressWrites
  /\ progressWrites' \subseteq progressWrites
  /\ \E w \in progressWrites \ progressWrites' : w.id = j
  /\ records[j].status = "processing"

\* C11: between the 'processing' write and the terminal write of a job, the
\* progress values persisted to its record never decrease and lie in 0..100.
C11_ProgressMonotone ==
  [][\A j \in JobIds :
       ProgressLands(j) => /\ records'[j].progress >= records[j].progress
                           /\ records'[j].progress \in 0..100]_vars

\* C12: every progress value persisted for a job is round(100 * d / total)
\* for a number d of that job's own completed chunks and its own chunk count;
\* chunk completions of other analyses do not reach the job's record.
C12_ProgressIsOwn ==
  [][\A j \in JobIds :
       ProgressLands(j) =>
         records'[j].progress \in
           {Percentage(d, ChunkCount(j)) : d \in 1..chunksDone[j]}]_vars

\* C13: no text that validateInput rejects is in the job queue, and a
\* submission of such a text, by either path, is answered with an error
\* without addJob being called.
C13_RejectedNeverQueued ==
  /\ \A i \in 1..Len(memoryQueue) : validateInput(memoryQueue[i].text)
  /\ (lastRequest.path # "none" /\ ~validateInput(lastRequest.text))
       => /\ lastRequest.status = 400
          /\ lastAdded.analysisId = NoJob \/ validateInput(lastAdded.text)

\* C14: createChunks returns only non-empty chunks, and the chunks in order
\* hold every non-blank segment of the source exactly once and in source
\* order: the content of the chunks, read in order, is the content of the
\* segments and of the text, and every segment lies in exactly one chunk.
C14_ChunksCoverSource ==
  ppc = "done" =>
    /\ \A k \in 1..Len(planned) :
         planned[k].str # <<>> /\ ~IsBlank(planned[k].str)
    /\ Content(Concat(ChunkStrings(planned))) = Content(Concat(segmentsOf(ptext)))
    /\ Content(Concat(ChunkStrings(planned))) = Content(ptext)
    /\ \A i \in 1..Len(segmentsOf(ptext)) :
         Cardinality({k \in 1..Len(planned) :
                        ContentIds(segmentsOf(ptext)[i])
                          \subseteq ContentIds(planned[k].str)}) = 1

\* an article text with a blank paragraph in it was split into two chunks
C14_Witness ==
  /\ ppc = "done"
  /\ Len(articleSplits(ptext)) > 1
  /\ \E i \in 1..Len(ptext) : ptext[i].blank /\ ~ptext[i].nl
  /\ Len(planned) = 2

\* C15: a text longer than twice chunkSize is analysed in at least two
\* chunks, a text with no line break included.
C15_LongTextSplits ==
  (ppc = "done" /\ needsChunking(ptext)) => Len(planned) >= 2

\* C16: a chunk is longer than chunkSize plus the joining separator only when
\* the segment that pushed it over chunkSize was appended to an accumulated
\* chunk not longer than minChunkSize.
C16_OversizeOnlyByGuard ==
  ppc = "done" =>
    \A k \in 1..Len(planned) :
      \/ Length(planned[k].str) <= chunkSize + joinLength(ptext)
      \/ \E n \in 1..Len(planned[k].parts) :
           LET part == planned[k].parts[n]
           IN /\ part.via = "append"
              /\ part.before <= minChunkSize
              /\ part.before + part.len > chunkSize

\* the batch of the chunk at 1-based position i
BatchIndex(i) == (i - 1) \div 5

\* C17: at most 5 chunk analyses of one chunked analysis are in flight, and a
\* chunk of a later batch has started only when every chunk of the batches
\* before it has finished, with a result or as a degraded result.
C17_BatchesBoundedAndOrdered ==
  /\ Cardinality({i \in 1..NumChunks : chunkState[i] = "inflight"}) <= 5
  /\ \A i, j \in 1..NumChunks :
       (BatchIndex(i) < BatchIndex(j) /\ chunkState[j] # "pending")
         => chunkState[i] \in {"ok", "failed"}

\* the second batch is running after a first batch of five chunks, one of
\* which ended degraded
C17_Witness ==
  /\ apc = "await"
  /\ batchStart = 5
  /\ chunkState[6] = "inflight"
  /\ \E i \in 1..5 : chunkState[i] = "failed"
  /\ \E i \in 1..5 : chunkState[i] = "ok"

\* C18: the sentiment provider is called only for the chunks 0, 1 and 2, at
\* most 3 times in one analysis, and every ChunkResult of index 3 or more has
\* no sentiment.
C18_SentimentOnlyFirstThree ==
  /\ Len(providerCalls) <= 3
  /\ \A k \in 1..Len(providerCalls) : providerCalls[k] \in {0, 1, 2}
  /\ \A i \in 1..NumChunks :
       (chunkState[i] \in {"ok", "failed"} /\ outcome[i].chunkIndex >= 3)
         => outcome[i].sentiment = NoSentiment
  /\ \A k \in 1..Len(chunkResults) :
       chunkResults[k].chunkIndex >= 3
         => chunkResults[k].sentiment = NoSentiment

\* an analysis of four chunks or more ended: three provider calls, a sentiment
\* in the first chunk's result, and an analysed chunk of index 3
C18_Witness ==
  /\ apc = "done"
  /\ NumChunks >= 4
  /\ providerCalls = <<0, 1, 2>>
  /\ chunkResults[1].sentiment # NoSentiment
  /\ chunkResults[4].chunkIndex = 3
  /\ chunkResults[4].error = ""

\* the number of thresholds a length lies above
Tier(len) == Cardinality({t \in {10000, 50000, 100000} : len > t})

\* C19: the priority of a queued job is 3, 2, 1 or 0 by the thresholds 100000,
\* 50000 and 10000 of its text length, a length on a threshold falling in the
\* lower tier; it does not decrease with the length; and the in-memory addJob
\* stores this value whatever priority the caller supplied.
C19_PriorityByLength ==
  /\ \A i \in 1..Len(memoryQueue) :
       memoryQueue[i].priority = Tier(memoryQueue[i].text.len)
  /\ \A i, j \in 1..Len(memoryQueue) :
       memoryQueue[i].text.len <= memoryQueue[j].text.len
         => memoryQueue[i].priority <= memoryQueue[j].priority
  /\ \A i \in 1..Len(memoryQueue) :
       (lastAdded.analysisId # NoJob
          /\ memoryQueue[i].analysisId = lastAdded.analysisId)
         => memoryQueue[i].priority = Tier(lastAdded.text.len)

\* a job whose text is exactly 50000 characters long was handed to addJob with
\* priority 7 and is queued with priority 1, next to a job of another tier
C19_Witness ==
  /\ lastAdded.analysisId # NoJob
  /\ lastAdded.priority = 7
  /\ lastAdded.text.len = 50000
  /\ \E i, j \in 1..Len(memoryQueue) :
       /\ memoryQueue[i].analysisId = lastAdded.analysisId
       /\ memoryQueue[i].priority = 1
       /\ memoryQueue[j].priority # 1

\* the positions of the jobs no caller has claimed
Unclaimed == {i \in 1..Len(memoryQueue) : memoryQueue[i].analysisId \notin processing}

\* C20: the in-memory queue list is sorted by descending priority, and
\* getNextJob returns an unclaimed job of maximal priority among the unclaimed
\* jobs, null exactly when there is none.
C20_SortedAndMaxFirst ==
  /\ \A i, j \in 1..Len(memoryQueue) :
       i < j => memoryQueue[i].priority >= memoryQueue[j].priority
  /\ LET job == getNextJob(memoryQueue, processing).job
     IN IF Unclaimed = {} THEN job = NoJob
        ELSE \E i \in Unclaimed :
               /\ memoryQueue[i].analysisId = job
               /\ \A k \in Unclaimed :
                    memoryQueue[i].priority >= memoryQueue[k].priority

\* the job added last has the higher priority and stands first; it has been
\* claimed, and the job of lower priority is the one left to claim
C20_Witness ==
  /\ Len(memoryQueue) = 2
  /\ memoryQueue[1].analysisId = 2
  /\ memoryQueue[1].priority > memoryQueue[2].priority
  /\ processing = {2}
  /\ getNextJob(memoryQueue, processing).job = 1

\* C21: set(key, value, ttl) replaces the entry of key: a get that follows
\* returns the new value, the expiry is now + ttl for every ttl supplied and
\* now + the configured default only when ttl is omitted, whatever the expiry
\* of the entry replaced.
C21_SetReplacesEntry ==
  [][\A k \in Keys, v \in Results, ttl \in TtlArgs :
       CacheSet(k, v, ttl) =>
         /\ cache'[k].present
         /\ cacheGet(cache', k, now').value = v
         /\ cache'[k].expiresAt =
              now + (IF ttl = Omitted THEN cacheTtl ELSE ttl)]_vars

\* the number of chunk results that carry this sentiment label
Tally(label) ==
  Cardinality({k \in 1..Len(chunkResults) : chunkResults[k].sentiment = label})
\* the labels in the order that resolves a tie
LabelRank == [positivo |-> 1, negativo |-> 2, neutro |-> 3]
LabelScore == [positivo |-> "+0.5", negativo |-> "-0.5", neutro |-> "0"]

\* C22: when a chunk result carries a sentiment, the consolidated label has
\* the highest tally of positivo, negativo and neutro, the first of them in
\* this order among the labels of highest tally, and the score is +0.5, -0.5
\* or 0 by the label; when none carries a sentiment the result has none.
C22_MajoritySentiment ==
  apc = "done" =>
    IF \A k \in 1..Len(chunkResults) : chunkResults[k].sentiment = NoSentiment
    THEN aresult.sentiment = NoOverall
    ELSE LET d == aresult.sentiment.overall
         IN /\ d \in DOMAIN LabelRank
            /\ \A l \in DOMAIN LabelRank :
                 /\ Tally(d) >= Tally(l)
                 /\ LabelRank[l] < LabelRank[d] => Tally(l) < Tally(d)
            /\ aresult.sentiment.score = LabelScore[d]

\* negativo and neutro tie with one chunk each, ahead of positivo: the
\* consolidated label is negativo
C22_Witness ==
  /\ apc = "done"
  /\ Tally("positivo") = 0
  /\ Tally("negativo") = 1
  /\ Tally("neutro") = 1
  /\ aresult.sentiment.overall = "negativo"

\* the number of times w occurs in the token stream, and where it occurs first
Occurrences(w) == Cardinality({i \in 1..Len(wtokens) : wtokens[i] = w})
FirstAt(w) ==
  CHOOSE i \in 1..Len(wtokens) :
    wtokens[i] = w /\ \A j \in 1..(i - 1) : wtokens[j] # w
DistinctWords == {wtokens[i] : i \in 1..Len(wtokens)}
\* word wa stands before word wb in the ranking
Before(wa, wb) ==
  \/ Occurrences(wa) > Occurrences(wb)
  \/ Occurrences(wa) = Occurrences(wb) /\ FirstAt(wa) < FirstAt(wb)

\* C23: getTopWords returns min(K, number of distinct words) entries, each a
\* word with its count, in non-increasing count order, words of equal count in
\* the order they were first seen; every word left out has a count no higher
\* than the included ones and, at equal count, was first seen later.
C23_TopWordsRanked ==
  wpc = "done" =>
    LET out == wtop.words
        included == {out[k].word : k \in 1..Len(out)}
    IN /\ Len(out) = Min(wtop.limit, Cardinality(DistinctWords))
       /\ Cardinality(included) = Len(out)
       /\ included \subseteq DistinctWords
       /\ \A k \in 1..Len(out) : out[k].count = Occurrences(out[k].word)
       /\ \A k, l \in 1..Len(out) : k < l => Before(out[k].word, out[l].word)
       /\ \A w \in DistinctWords \ included :
            \A k \in 1..Len(out) : Before(out[k].word, w)

\* six distinct words ranked with limit 5: the word left out has the count of
\* the last word kept
C23_Witness ==
  /\ wpc = "done"
  /\ wtop.limit = 5
  /\ Cardinality(DistinctWords) = 6
  /\ Len(wtop.words) = 5
  /\ \E w \in DistinctWords :
       /\ \A k \in 1..5 : wtop.words[k].word # w
       /\ Occurrences(w) = wtop.words[5].count
       /\ wtop.words[1].count > wtop.words[5].count

\* the positions <<chunk result, entry>> of the top-word entries of word w and
\* of the legal-term entries of term w in the chunk results
TopEntriesOf(w) ==
  {<<k, j>> \in (1..Len(chunkResults)) \X (1..10) :
     j <= Len(chunkResults[k].topWords) /\ chunkResults[k].topWords[j].word = w}
TermEntriesOf(w) ==
  {<<k, j>> \in (1..Len(chunkResults)) \X (1..10) :
     j <= Len(chunkResults[k].legalTerms)
       /\ chunkResults[k].legalTerms[j].term = w}
RECURSIVE TopTotal(_)
TopTotal(P) ==
  IF P = {} THEN 0
  ELSE LET p == CHOOSE q \in P : TRUE
       IN chunkResults[p[1]].topWords[p[2]].count + TopTotal(P \ {p})
RECURSIVE TermTotal(_)
TermTotal(P) ==
  IF P = {} THEN 0
  ELSE LET p == CHOOSE q \in P : TRUE
       IN chunkResults[p[1]].legalTerms[p[2]].count + TermTotal(P \ {p})

\* C24: the consolidated topWords has at most 5 entries, the consolidated
\* legalTerms names each term once, both are in non-increasing count order,
\* and each count is the sum of the counts of that word or term over all chunk
\* results.
C24_ConsolidatedLists ==
  apc = "done" =>
    LET top == aresult.topWords
        terms == aresult.legalTerms
    IN /\ Len(top) <= 5
       /\ \A k, l \in 1..Len(terms) : k # l => terms[k].term # terms[l].term
       /\ \A k, l \in 1..Len(top) : k < l => top[k].count >= top[l].count
       /\ \A k, l \in 1..Len(terms) : k < l => terms[k].count >= terms[l].count
       /\ \A k \in 1..Len(top) :
            top[k].count = TopTotal(TopEntriesOf(top[k].word))
       /\ \A k \in 1..Len(terms) :
            terms[k].count = TermTotal(TermEntriesOf(terms[k].term))

\* the chunk results name more than five words: five are kept, and the count
\* of a term is the sum over several chunk results
C24_Witness ==
  /\ apc = "done"
  /\ Len(aresult.topWords) = 5
  /\ Cardinality(UNION {{chunkResults[k].topWords[j].word :
                           j \in 1..Len(chunkResults[k].topWords)} :
                        k \in 1..Len(chunkResults)}) > 5
  /\ \E k \in 1..Len(aresult.legalTerms) :
       Cardinality({p[1] : p \in TermEntriesOf(aresult.legalTerms[k].term)}) >= 2

RECURSIVE ResultWords(_)
\* the sum of the wordCount of the chunk results at the positions in S
ResultWords(S) ==
  IF S = {} THEN 0
  ELSE LET k == CHOOSE i \in S : TRUE
       IN chunkResults[k].wordCount + ResultWords(S \ {k})
RECURSIVE AnalysedWords(_)
\* the number of words of the chunks at the positions in S
AnalysedWords(S) ==
  IF S = {} THEN 0
  ELSE LET i == CHOOSE j \in S : TRUE
       IN Len(extractWords(chunks[i])) + AnalysedWords(S \ {i})

\* C25: the consolidated wordCount of a chunked analysis is the sum of the
\* wordCount of its ChunkResults, one for each chunk, a degraded chunk
\* counting 0: it is the number of words of the chunks that were analysed.
C25_WordCountIsSum ==
  apc = "done" =>
    /\ Len(chunkResults) = NumChunks
    /\ aresult.wordCount = ResultWords(1..Len(chunkResults))
    /\ aresult.wordCount =
         AnalysedWords({i \in 1..NumChunks : chunkState[i] = "ok"})

\* an analysis of two batches ended with a degraded chunk that has words and
\* an analysed chunk that has words
C25_Witness ==
  /\ apc = "done"
  /\ NumChunks > 5
  /\ \E i \in 1..NumChunks :
       chunkState[i] = "failed" /\ Len(extractWords(chunks[i])) > 0
  /\ \E i \in 1..NumChunks :
       chunkState[i] = "ok" /\ Len(extractWords(chunks[i])) > 0
  /\ aresult.wordCount > 0

Computing(c) ==
  /\ calls[c].pc # "idle"
  /\ ~calls[c].hit
  /\ ~calls[c].error

\* C27: caching is idempotent by content also under overlap: of two calls of
\* analyzeLegalText with the same text submitted within one TTL window, at
\* most one runs the analysis pipeline, and both obtain equal results.
C27_ComputedOnce ==
  now <= cacheTtl =>
    \A c, d \in Callers :
      (c # d /\ Computing(c) /\ Computing(d) /\ calls[c].text = calls[d].text)
        => /\ "running" \notin {calls[c].pc, calls[d].pc}
           /\ calls[c].result = calls[d].result

\* C28: the worker's active-job set holds exactly the ids of the jobs with an
\* execution in flight: an execution that ended, by success or by failure, has
\* left the set, so getStats().activeJobs is 0 when nothing is in flight.
C28_ActiveJobsAreInFlight ==
  activeJobs = {j \in JobIds : InFlight(j) > 0}

\* C29: every failed execution on the in-memory queue hands its job to
\* failJob, also when the store write of status 'failed' fails: a job is in
\* the claimed set only while it has an execution in flight.
C29_FailedJobIsHandedBack ==
  \A j \in processing : InFlight(j) > 0

\* C30: a job run through the Bull queue gets the same record updates as on
\* the in-memory queue: each completed chunk of the job issues the store
\* write of its percentage (which updateJobProgress follows with the Bull
\* job's progress).
C30_ChunkUpdatesProgress ==
  [][\A j \in JobIds :
       chunksDone'[j] = chunksDone[j] + 1
         => [id |-> j, progress |-> Percentage(chunksDone'[j], ChunkCount(j))]
              \in progressWrites']_vars

\* with the Redis backend no progressHandler passes its activeJobs test
BullProgressNeverIssued ==
  /\ activeJobs = {}
  /\ progressWrites = {}
  /\ \A j \in JobIds : bull[j].progress = 0

\* C31: the cache lookup precedes the size test: addJob is called only for a
\* text that has no unexpired cache entry, so a large text whose result is
\* cached is answered from the cache and not queued.
C31_QueuedOnlyOnMiss ==
  [][\A t \in Texts :
       (Len(memoryQueue') > Len(memoryQueue) /\ lastAdded'.text = t)
         => ~LiveEntry(t)]_vars

\* C32: after stop() the worker starts no new job execution: while isRunning
\* is false neither the polling loop nor a 'job:added' notification claims a
\* job (executions in flight still run to their end).
C32_NoStartAfterStop ==
  [][(~isRunning /\ ~isRunning') => started' = started]_vars

\* C33: when a job's record has status 'completed' and every store write
\* issued for the job has landed, its progress is 100: no progress write of
\* the chunk pipeline takes effect after the write of 'completed'.
C33_CompletedMeansHundred ==
  \A j \in JobIds :
    (records[j].status = "completed" /\ ~\E w \in progressWrites : w.id = j)
      => records[j].progress = 100

\* p is Math.round(100 * current / total)
IsRounded(p, current, total) ==
  /\ 2 * p * total <= 200 * current + total
  /\ 200 * current + total < 2 * p * total + 2 * total

OkChunks == {i \in 1..NumChunks : chunkState[i] = "ok"}

\* C34: within one chunked analysis the progress notifications carry
\* current = 1, 2, ..., k in emission order, k being the number of chunks
\* analysed without error, each with the analysis's total and
\* percentage = round(100 * current / total), whatever order the chunks of a
\* batch complete in; when no chunk fails the last notification has
\* percentage 100 and chunksProcessed is the number of chunks.
C34_ProgressCountsUp ==
  /\ Len(progressEvents) = Cardinality(OkChunks)
  /\ \A k \in 1..Len(progressEvents) :
       /\ progressEvents[k].current = k
       /\ progressEvents[k].total = NumChunks
       /\ IsRounded(progressEvents[k].percentage, k, NumChunks)
  /\ (apc = "done" /\ OkChunks = 1..NumChunks)
       => /\ progressEvents[NumChunks].percentage = 100
          /\ aresult.chunksProcessed = NumChunks

\* of a first batch of three chunks the third and the second completed
\* before the first, which is still being analysed
C34_Witness ==
  /\ apc = "await"
  /\ NumChunks = 3
  /\ chunkState[1] = "inflight"
  /\ chunkState[2] = "ok"
  /\ chunkState[3] = "ok"
  /\ Len(progressEvents) = 2
  /\ progressEvents[2].percentage = 67

\* C35: the consolidated sentiment label is a label that at least one
\* contributing chunk reported, whatever strings the sentiment provider
\* answers.
C35_LabelWasReported ==
  (apc = "done" /\ aresult.sentiment.overall # NoSentiment)
    => \E k \in 1..Len(chunkResults) :
         chunkResults[k].sentiment = aresult.sentiment.overall

\* C36: a consolidated result computed while one or more chunks were degraded
\* by an error is not written to the cache, so a later submission of the text
\* analyses it again instead of receiving the degraded result.
C36_DegradedNotCached ==
  (\E i \in 1..NumChunks : chunkState[i] = "failed")
    => /\ ~cache[generateKey(LongText)].present
       /\ apc # "hit"

\* the words of the whole text, and the number of times w is among them
WholeWords == extractWords(Concat(chunks))
WholeCount(w) == Len(SelectSeq(WholeWords, LAMBDA x : x = w))

\* C37: when no chunk fails, chunked analysis agrees with whole-document
\* analysis on the top words: every word of the consolidated topWords carries
\* its total count in the full text, and no word with a higher total count
\* than a listed word is left out.
C37_TopWordsAgreeWithWhole ==
  (apc = "done" /\ \A i \in 1..NumChunks : chunkState[i] = "ok")
    => LET top == aresult.topWords
           listed == {top[k].word : k \in 1..Len(top)}
       IN /\ \A k \in 1..Len(top) : top[k].count = WholeCount(top[k].word)
          /\ \A k \in 1..Len(top), j \in 1..Len(WholeWords) :
               WholeWords[j] \notin listed
                 => WholeCount(WholeWords[j]) <= WholeCount(top[k].word)

\* the position of job id in the list q
PositionOf(q, id) == CHOOSE i \in 1..Len(q) : q[i].analysisId = id

C39_ClaimedAreQueued ==
  /\ processing \subseteq QueueIds(memoryQueue)
  /\ getStats(memoryQueue, processing).pendingJobs >= 0
  /\ getStats(memoryQueue, processing).pendingJobs
       + getStats(memoryQueue, processing).activeJobs = Len(memoryQueue)

\* one job was dropped after its last attempt and its timers have fired; the
\* other job is claimed
C39_Witness ==
  /\ \E j \in JobIds : failedEmits[j] = 1 /\ j \notin QueueIds(memoryQueue)
  /\ timers = {}
  /\ Len(memoryQueue) = 1
  /\ Cardinality(processing) = 1
  /\ getStats(memoryQueue, processing).pendingJobs = 0

====
